---- MODULE Spec2Model ----
(***************************************************************************)
(* The field sampling engine of met-galaxy-backend: the two handlers of    *)
(* src/src/routes/fieldChunk.ts (GET /field-chunk, POST /field-chunks),    *)
(* the numeric helpers and the PCA basis store of lib/fieldVectors.ts      *)
(* (src/unnamed/part_002), the startup of src/unnamed/part_001 and the     *)
(* shared connection pool of src/src/db/index.ts.                          *)
(*                                                                         *)
(* Numbers.  A JavaScript number that a request can carry is kept in       *)
(* halves (n2 = 2*n), so that 1.5 is the integer 3.  A 32-bit word is the  *)
(* pair <<hi, lo>> of its 16-bit halves.  The temperature t and the        *)
(* weights are fixed-point numbers in thousandths and millionths.          *)
(***************************************************************************)
EXTENDS Integers, Sequences, FiniteSets, TLC

\* F(v), with v computed before F is entered: the statements of the code run
\* one after the other
Then(v, F(_)) == CHOOSE y \in {F(x) : x \in {v}} : TRUE

\* ------------------------------------------------------------------------
\* 32-bit words
\* ------------------------------------------------------------------------
W16 == 65536

RECURSIVE XorN(_, _, _)
XorN(a, b, n) ==
  IF n = 0 THEN 0
  ELSE (((a % 2) + (b % 2)) % 2) + (2 * XorN(a \div 2, b \div 2, n - 1))

RECURSIVE OrN(_, _, _)
OrN(a, b, n) ==
  IF n = 0 THEN 0
  ELSE (IF (a % 2) = 1 \/ (b % 2) = 1 THEN 1 ELSE 0) + (2 * OrN(a \div 2, b \div 2, n - 1))

WXor(a, b) == <<XorN(a[1], b[1], 16), XorN(a[2], b[2], 16)>>

\* a | k for a small constant 0 <= k < 65536
WOrSmall(a, k) == <<a[1], OrN(a[2], k, 16)>>

WAdd(a, b) ==
  LET lo == a[2] + b[2]
  IN  <<(a[1] + b[1] + (lo \div W16)) % W16, lo % W16>>

\* a >>> k for 0 < k < 16
WShr(a, k) ==
  LET p == 2 ^ k
  IN  <<a[1] \div p, ((a[1] % p) * (2 ^ (16 - k))) + (a[2] \div p)>>

\* Math.imul(a, b) >>> 0: the low 32 bits of the product, byte by byte
ImulSum(p0, p1, p2, p3) ==
  <<((((p0 + ((p1 % 256) * 256)) \div W16) + (p1 \div 256) + p2 + ((p3 % 256) * 256)) % W16),
    (p0 + ((p1 % 256) * 256)) % W16>>

ImulBytes(a0, a1, a2, a3, b0, b1, b2, b3) ==
  ImulSum(a0 * b0,
          (a0 * b1) + (a1 * b0),
          (a0 * b2) + (a1 * b1) + (a2 * b0),
          (a0 * b3) + (a1 * b2) + (a2 * b1) + (a3 * b0))

Imul(a, b) ==
  ImulBytes(a[2] % 256, a[2] \div 256, a[1] % 256, a[1] \div 256,
            b[2] % 256, b[2] \div 256, b[1] % 256, b[1] \div 256)

\* (n | 0) >>> 0 for an integer n with |n| < 2^31
ToUint32(n) ==
  IF n >= 0 THEN <<n \div W16, n % W16>>
  ELSE LET m == (-n) - 1 IN <<65535 - (m \div W16), 65535 - (m % W16)>>

\* n | 0 of a number kept in halves: truncation toward zero
Trunc2(n2) == IF n2 >= 0 THEN n2 \div 2 ELSE -((-n2) \div 2)

FNVOffset == <<33052, 40389>>
FNVPrime  == <<256, 403>>

RECURSIVE hash32From(_, _)
hash32From(h, nums) ==
  IF nums = <<>> THEN h
  ELSE Then(Imul(WXor(h, ToUint32(Head(nums))), FNVPrime),
            LAMBDA h1 : hash32From(h1, Tail(nums)))

\* a mix that multiplies before it folds the argument in
RECURSIVE hash32MulFirstFrom(_, _)
hash32MulFirstFrom(h, nums) ==
  IF nums = <<>> THEN h
  ELSE Then(WXor(Imul(h, FNVPrime), ToUint32(Head(nums))),
            LAMBDA h1 : hash32MulFirstFrom(h1, Tail(nums)))

hash32MulFirst(nums) == hash32MulFirstFrom(FNVOffset, nums)

\* hash32(...nums) over integers
hash32(nums) == hash32From(FNVOffset, nums)

\* w % m for a word w and a small modulus m (2^16 % m computed exactly)
WMod(w, m) == (((w[1] % m) * (W16 % m)) + (w[2] % m)) % m

\* mulberry32: the closure's state t, one call of the closure
MulberryInc == <<27947, 31221>>

mulberryStep(t) == WAdd(t, MulberryInc)

\* r = Math.imul(t ^ (t >>> 15), 1 | t)
mulberryMix1(t) == Imul(WXor(t, WShr(t, 15)), WOrSmall(t, 1))

\* r ^= r + Math.imul(r ^ (r >>> 7), 61 | r)
mulberryMix2(r) == WXor(r, WAdd(r, Imul(WXor(r, WShr(r, 7)), WOrSmall(r, 61))))

\* (r ^ (r >>> 14)) >>> 0
mulberryMix3(r) == WXor(r, WShr(r, 14))

mulberryOut(t) == Then(Then(mulberryMix1(t), mulberryMix2), mulberryMix3)

\* A draw of the closure: the word w stands for the float w / 2^32
IsZeroDraw(w) == w = <<0, 0>>

\* gaussian(rng): draws until u is non-zero, then until v is non-zero; the
\* result is [t |-> the closure's state afterwards, u, v |-> the two draws]
RECURSIVE DrawNonZero(_)
DrawKept(t1, w) == IF IsZeroDraw(w) THEN DrawNonZero(t1) ELSE [t |-> t1, w |-> w]

DrawAt(t1) == Then(mulberryOut(t1), LAMBDA w : DrawKept(t1, w))

DrawNonZero(t) == Then(mulberryStep(t), DrawAt)

gaussianOf(a, b) == [t |-> b.t, u |-> a.w, v |-> b.w]

gaussianAfter(a) == Then(DrawNonZero(a.t), LAMBDA b : gaussianOf(a, b))

gaussian(t) == Then(DrawNonZero(t), gaussianAfter)

\* gaussianVector(d, rng): d samples drawn one after the other; the vector is
\* kept as the sequence of the draws that made it
RECURSIVE gaussianVector(_, _)
gaussianCons(g, rest) == [t |-> rest.t, eps |-> <<<<g.u, g.v>>>> \o rest.eps]

gaussianNext(d, g) ==
  Then(gaussianVector(d - 1, g.t), LAMBDA rest : gaussianCons(g, rest))

gaussianVector(d, t) ==
  IF d = 0 THEN [t |-> t, eps |-> <<>>]
  ELSE Then(gaussian(t), LAMBDA g : gaussianNext(d, g))

\* ------------------------------------------------------------------------
\* Field coordinates, temperature and weights (fixed point)
\* ------------------------------------------------------------------------
Min(a, b) == IF a < b THEN a ELSE b
Max(a, b) == IF a > b THEN a ELSE b

\* 4 * r^2 for r = Math.hypot(x, y), x and y in halves: exact
R2(x2, y2) == (x2 * x2) + (y2 * y2)

RECURSIVE ISqrtIn(_, _, _)
ISqrtAt(n, lo, mid, hi) ==
  IF mid * mid <= n THEN ISqrtIn(n, mid, hi) ELSE ISqrtIn(n, lo, mid - 1)

ISqrtIn(n, lo, hi) ==
  IF lo >= hi THEN lo ELSE ISqrtAt(n, lo, (lo + hi + 1) \div 2, hi)

\* r in hundredths, truncated: floor(100 * sqrt(r2 / 4)) = floor(sqrt(2500 * r2))
RCenti(r2) == ISqrtIn(2500 * r2, 0, 40000)

\* floor(a * 10^n / b) for 0 <= a, 0 < b < 2^31 / 10, by long division
RECURSIVE LongDiv(_, _, _)
LongDiv(a, b, n) ==
  IF n = 0 THEN a \div b
  ELSE ((a \div b) * (10 ^ n)) + LongDiv(10 * (a % b), b, n - 1)

\* a * m = q * b + r with 0 <= r < b, for 0 <= a <= b < 2^31 and small m,
\* without leaving 32 bits: doubling and adding on the remainder
Doubled(h, b) ==
  IF h.r >= b - h.r THEN [q |-> (2 * h.q) + 1, r |-> h.r - (b - h.r)]
  ELSE [q |-> 2 * h.q, r |-> h.r + h.r]

Added(d, aq, ar, b) ==
  IF d.r >= b - ar THEN [q |-> d.q + aq + 1, r |-> d.r - (b - ar)]
  ELSE [q |-> d.q + aq, r |-> d.r + ar]

RECURSIVE MulDiv(_, _, _)
MulDiv(a, m, b) ==
  IF m = 0 THEN [q |-> 0, r |-> 0]
  ELSE IF m % 2 = 0 THEN Doubled(MulDiv(a, m \div 2, b), b)
  ELSE Added(Doubled(MulDiv(a, m \div 2, b), b), a \div b, a % b, b)

\* round(1000 * a / b) for 0 <= a <= b
RoundHalfUp(d, b) == IF d.r >= b - d.r THEN d.q + 1 ELSE d.q

RoundMilli(a, b) == RoundHalfUp(MulDiv(a, 1000, b), b)

TScale == 1000

\* smoothstep(edge0, edge1, x), edges and x in hundredths, result in
\* thousandths; a value strictly inside (0, 1) stays strictly inside
Hermite(d, n) ==
  IF n = 0 THEN 0
  ELSE IF n = d THEN TScale
  ELSE Max(1, Min(TScale - 1, RoundMilli(n * n * ((3 * d) - (2 * n)), d * d * d)))

\* smoothstep without the clamp of x to [0, 1]
Unclamped(d, x) == Hermite(d, x)

Clamped(d, x) == Hermite(d, Max(0, Min(d, x)))

smoothstep(edge0, edge1, xc) == Clamped(Max(1, edge1 - edge0), xc - edge0)

Edge0 == 150
Edge1 == 1200

\* t of a chunk: smoothstep(1.5, 12.0, Math.hypot(x, y))
Temperature(x2, y2) == smoothstep(Edge0, Edge1, RCenti(R2(x2, y2)))

\* the weights, in millionths
wSim(t)   == (TScale - t) * (TScale - t)
wDrift(t) == 2 * t * (TScale - t)
wRand(t)  == t * t

\* Math.floor(w * 1000) in place of Math.round
Floor3(w) == w \div 1000

\* Math.round(w * 1000), w in millionths
Round3(w) == (w + 500) \div 1000

\* meta.weights, in thousandths
MetaWeights(t) ==
  [sim |-> Round3(wSim(t)), drift |-> Round3(wDrift(t)), rand |-> Round3(wRand(t))]

\* u < p / 10^6 for the draw u = (hi * 2^16 + lo) / 2^32, exactly
DrawBelow(u, p) ==
  LET a == u[1] * 15625
      b == p * 1024
  IN  IF a >= b THEN FALSE
      ELSE IF b - a >= 15625 THEN TRUE
      ELSE u[2] * 15625 < (b - a) * W16

\* the primary choice of a selection step: sum = wSim + wDrift + wRand || 1,
\* pSim = wSim / sum, pDrift = wDrift / sum
WeightSum(t) ==
  IF wSim(t) + wDrift(t) + wRand(t) = 0 THEN 1000000
  ELSE wSim(t) + wDrift(t) + wRand(t)

pSim(t) == LongDiv(wSim(t), WeightSum(t), 6)
pDrift(t) == LongDiv(wDrift(t), WeightSum(t), 6)

ChoiceAt(u, ps, pd) ==
  IF DrawBelow(u, ps) THEN "sim"
  ELSE IF DrawBelow(u, ps + pd) THEN "drift"
  ELSE "rand"

\* a primary choice that ignores the temperature: thirds
ChoiceThirds(u, t) == ChoiceAt(u, 333333, 333333)

Choice(u, t) == ChoiceAt(u, pSim(t), pDrift(t))

\* lerp(0.0, 0.35, t) in hundred-thousandths
lerp(a, b, t) == (a * TScale) + ((b - a) * t)

\* ------------------------------------------------------------------------
\* The corpus snapshot and the vector store
\* ------------------------------------------------------------------------
NIds == 6
RowsPerId == 100
NConns == 2
NSlots == 2
Dim == 2

\* rows with an embedding and a local image; one more row has neither
Eligible == 1 .. NIds
IneligibleId == NIds + 1

Conns == 1 .. NConns
Slots == 1 .. NSlots

\* Embeddings live on a ring of RingSize directions: row id sits at id, and
\* the cosine distance of two directions is their distance on the ring.
RingSize == 7

CosDist(id, q) ==
  LET d == (((id - q) % RingSize) + RingSize) % RingSize
  IN  Min(d, RingSize - d)

\* 1 - ("imgVec" <=> q), as an integer code
Similarity(id, q) == RingSize - CosDist(id, q)

Take(seq, n) == SubSeq(seq, 1, Min(n, Len(seq)))

\* rows ordered by key k, then id
RECURSIVE SortRows(_)
SortRows(S) ==
  IF S = {} THEN <<>>
  ELSE LET m == CHOOSE r \in S :
                  \A o \in S : r.k < o.k \/ (r.k = o.k /\ r.id <= o.id)
       IN  <<m>> \o SortRows(S \ {m})

StripKey(rows) == [i \in 1 .. Len(rows) |-> [id |-> rows[i].id, sim |-> rows[i].sim]]

\* WHERE "imgVec" IS NOT NULL AND "localImageUrl" ... AND id != target
\* [AND id NOT IN (excluded)]
Matching(target, excluded) == {id \in Eligible : id /= target /\ id \notin excluded}

\* SELECT ..., 1 - ("imgVec" <=> q) AS sim ... ORDER BY "imgVec" <=> q LIMIT n
NearestQuery(q, target, excluded, n) ==
  Take(StripKey(SortRows({[id |-> id, sim |-> {Similarity(id, q)}, k |-> CosDist(id, q)] :
                            id \in Matching(target, excluded)})), n)

\* The session's generator: after setseed(s) the k-th value of RANDOM()
SessRandom(s, k) == WMod(mulberryOut(WAdd(s, ToUint32(k))), 16)

\* SELECT ... ORDER BY RANDOM(), id ASC LIMIT n on a session in state st:
\* the rows in scan order take the next values of the session's generator
RankIn(S, id) == Cardinality({j \in S : j < id})

RandomQuery(st, target, excluded, n) ==
  LET S == Matching(target, excluded)
  IN  Take(StripKey(SortRows({[id |-> id, sim |-> {}, k |-> SessRandom(st.s, st.k + RankIn(S, id))] :
                                id \in S})), n)

\* the session afterwards: one value consumed per matching row
RandomQueryAdvance(st, target, excluded) ==
  [s |-> st.s, k |-> st.k + Cardinality(Matching(target, excluded))]

\* const seedToPgFloat = (seed) => (seed >>> 0) / 4294967296: the float
\* num / 2^32, num a 32-bit word
seedToPgFloat(seed) == [num |-> <<seed[1] % W16, seed[2] % W16>>, den32 |-> TRUE]

\* SELECT setseed(f): the session restarts its generator from f
SetSeed(f) == [s |-> f.num, k |-> 0]

\* ------------------------------------------------------------------------
\* The mixture sampler
\* ------------------------------------------------------------------------
\* pool.slice(offset).concat(pool.slice(0, offset))
Slice(pool, from, to) ==
  LET f == Min(from, Len(pool))
      t == Min(to, Len(pool))
  IN  IF f >= t THEN <<>> ELSE SubSeq(pool, f + 1, t)

\* pool.slice(offset) alone, without the elements before offset
RotateDrop(pool, offset) == Slice(pool, offset, Len(pool))

Rotate(pool, offset) == Slice(pool, offset, Len(pool)) \o Slice(pool, 0, offset)

\* .map(x => ({...x, source: 'sim'})) on every queue
TagSim(pool, source) ==
  [i \in 1 .. Len(pool) |-> [id |-> pool[i].id, sim |-> pool[i].sim, source |-> "sim"]]

\* .map(x => ({...x, source}))
Tag(pool, source) ==
  [i \in 1 .. Len(pool) |-> [id |-> pool[i].id, sim |-> pool[i].sim, source |-> source]]

\* a takeNext that gives up at the first used element
takeNextOnce(q, used) ==
  IF q = <<>> THEN [p |-> <<>>, q |-> <<>>]
  ELSE IF Head(q).id \notin used THEN [p |-> <<Head(q)>>, q |-> Tail(q)]
  ELSE [p |-> <<>>, q |-> Tail(q)]

\* takeNext(q): shifts q until an element whose id is not used comes out;
\* [p |-> <<element>> or <<>> (null), q |-> what is left of q]
RECURSIVE takeNext(_, _)
takeNext(q, used) ==
  IF q = <<>> THEN [p |-> <<>>, q |-> <<>>]
  ELSE IF Head(q).id \notin used THEN [p |-> <<Head(q)>>, q |-> Tail(q)]
  ELSE takeNext(Tail(q), used)

\* takeNext(a) || takeNext(b) || takeNext(c) on the queues named by order;
\* from is the queue the element came out of
TakeThird(qs, order, a, b, c) ==
  [p |-> c.p, from |-> order[3],
   qs |-> [qs EXCEPT ![order[1]] = a.q, ![order[2]] = b.q, ![order[3]] = c.q]]

TakeSecond(qs, order, used, a, b) ==
  IF b.p /= <<>>
  THEN [p |-> b.p, from |-> order[2],
        qs |-> [qs EXCEPT ![order[1]] = a.q, ![order[2]] = b.q]]
  ELSE TakeThird(qs, order, a, b, takeNext(qs[order[3]], used))

\* cand = takeNext(primary), with no fallback to the other queues
TakeFromPrimaryOnly(qs, order, used, a) ==
  [p |-> a.p, from |-> order[1], qs |-> [qs EXCEPT ![order[1]] = a.q]]

TakeFrom(qs, order, used, a) ==
  IF a.p /= <<>>
  THEN [p |-> a.p, from |-> order[1], qs |-> [qs EXCEPT ![order[1]] = a.q]]
  ELSE TakeSecond(qs, order, used, a, takeNext(qs[order[2]], used))

TakeFirst(qs, order, used) == TakeFrom(qs, order, used, takeNext(qs[order[1]], used))

\* one order of the queues for every choice
FallbackOrderFixed(choice) == <<"sim", "drift", "rand">>

FallbackOrder(choice) ==
  IF choice = "sim" THEN <<"sim", "drift", "rand">>
  ELSE IF choice = "drift" THEN <<"drift", "sim", "rand">>
  ELSE <<"rand", "drift", "sim">>

\* a loop that draws once more after every fallback to another queue
RECURSIVE SelectionLoop(_, _, _)
LoopTakenRedraw(st, rng1, choice, got, count, t) ==
  IF got.p = <<>>
  THEN [st EXCEPT !.rng = rng1, !.qs = got.qs, !.draws = Append(st.draws, choice)]
  ELSE Then([i |-> st.i + 1,
             rng |-> IF got.from /= choice THEN mulberryStep(rng1) ELSE rng1,
             qs |-> got.qs,
             used |-> st.used \cup {got.p[1].id},
             out |-> Append(st.out, got.p[1]),
             draws |-> Append(st.draws, choice),
             taken |-> Append(st.taken, got.from)],
            LAMBDA st1 : SelectionLoop(st1, count, t))

\* for (let i = 0; i < count; i++) { u = rng(); choice; cand; if (!cand) break;
\*   used.add(cand.id); out.push(cand) }
\* st = [i, rng, qs, used, out, draws (the choices drawn so far), taken (the
\* queue each element of out came out of)]
LoopTaken(st, rng1, choice, got, count, t) ==
  IF got.p = <<>>
  THEN [st EXCEPT !.rng = rng1, !.qs = got.qs, !.draws = Append(st.draws, choice)]
  ELSE Then([i |-> st.i + 1, rng |-> rng1, qs |-> got.qs,
             used |-> st.used \cup {got.p[1].id},
             out |-> Append(st.out, got.p[1]),
             draws |-> Append(st.draws, choice),
             taken |-> Append(st.taken, got.from)],
            LAMBDA st1 : SelectionLoop(st1, count, t))

LoopChosen(st, rng1, choice, count, t) ==
  Then(TakeFirst(st.qs, FallbackOrder(choice), st.used),
       LAMBDA got : LoopTaken(st, rng1, choice, got, count, t))

LoopDrawn(st, rng1, count, t) ==
  Then(Choice(mulberryOut(rng1), t),
       LAMBDA choice : LoopChosen(st, rng1, choice, count, t))

SelectionLoop(st, count, t) ==
  IF st.i >= count THEN st
  ELSE Then(mulberryStep(st.rng), LAMBDA rng1 : LoopDrawn(st, rng1, count, t))

Sample(simTightQ, simDriftQ, randQ, used, rng, count, t) ==
  SelectionLoop([i |-> 0, rng |-> rng,
                 qs |-> [sim |-> simTightQ, drift |-> simDriftQ, rand |-> randQ],
                 used |-> used, out |-> <<>>, draws |-> <<>>, taken |-> <<>>],
                count, t)

\* out.map(p => ({ id, ..., similarity: typeof p.sim === 'number' ? p.sim : null,
\*                 source: p.source }))
FormatItems(out) ==
  [i \in 1 .. Len(out) |->
     [id |-> out[i].id, similarity |-> out[i].sim, source |-> out[i].source]]

\* ------------------------------------------------------------------------
\* Requests
\* ------------------------------------------------------------------------
\* A query-string value: absent, the decimal text of an integer ("int"), a
\* text that starts with an integer and goes on ("frac": "3.5", "3abc"), or a
\* text that does not start with a number ("junk")
Absent == [k |-> "absent", v |-> 0]
Junk   == [k |-> "junk", v |-> 0]
IntTok(n)  == [k |-> "int", v |-> n]
FracTok(n) == [k |-> "frac", v |-> n]

\* parseInt(text): the leading integer, or NaN
parseInt(tok) ==
  IF tok.k \in {"int", "frac"} THEN [nan |-> FALSE, v |-> tok.v]
  ELSE [nan |-> TRUE, v |-> 0]

\* A JSON value of a request body: absent (undefined), null, a string, or a
\* number, kept in halves
JAbsent == [k |-> "absent", v2 |-> 0]
JNull   == [k |-> "null", v2 |-> 0]
JStr    == [k |-> "str", v2 |-> 0]
JNum(n) == [k |-> "num", v2 |-> 2 * n]
JHalf(n2) == [k |-> "num", v2 |-> n2]

IsNumber(j) == j.k = "num"
IsInteger2(n2) == n2 % 2 = 0

NoExclude == [k |-> "absent", toks |-> <<>>]
ExcludeStr(toks) == [k |-> "str", toks |-> toks]

GetReq(targetId, cx, cy, count, seed, exclude) ==
  [mode |-> "GET", targetId |-> targetId, chunkX |-> cx, chunkY |-> cy,
   count |-> count, seed |-> seed, exclude |-> exclude]

\* the GET requests of the model: a sound request at three radii, and one
\* parameter changed at a time
GetRequests ==
  {GetReq(IntTok(1), IntTok(c[1]), IntTok(c[2]), IntTok(2), Absent, NoExclude) :
     c \in {<<0, 0>>, <<3, 0>>, <<10, 10>>}}
  \cup {GetReq(IntTok(1), IntTok(3), IntTok(0), n, Absent, NoExclude) :
          n \in {Absent, IntTok(0), IntTok(-1), IntTok(60)}}
  \cup {GetReq(IntTok(1), IntTok(0), IntTok(0), IntTok(3), IntTok(7), NoExclude)}
  \cup {GetReq(IntTok(1), IntTok(c[1]), IntTok(c[2]), IntTok(2), Absent,
               ExcludeStr(<<IntTok(2), Junk, FracTok(3)>>)) :
          c \in {<<0, 0>>, <<10, 10>>}}
  \cup {GetReq(t, IntTok(3), IntTok(0), IntTok(2), Absent, NoExclude) :
          t \in {Absent, Junk, IntTok(0), IntTok(-1), FracTok(1), IntTok(IneligibleId)}}
  \cup {GetReq(IntTok(1), Junk, IntTok(0), IntTok(2), Absent, NoExclude),
        GetReq(IntTok(1), IntTok(0), Absent, IntTok(2), Absent, NoExclude),
        GetReq(IntTok(1), FracTok(3), IntTok(0), IntTok(2), Absent, NoExclude)}

\* a member of the chunks list: an object with x and y, or null
Member(x, y) == [k |-> "obj", x |-> x, y |-> y]
NullMember == [k |-> "null", x |-> JAbsent, y |-> JAbsent]
At(x, y) == Member(JNum(x), JNum(y))

NotArray == [k |-> "absent", items |-> <<>>]
Arr(items) == [k |-> "arr", items |-> items]

PostReq(targetId, chunks, count, seed, excludeIds) ==
  [mode |-> "POST", targetId |-> targetId, chunks |-> chunks, count |-> count,
   seed |-> seed, excludeIds |-> excludeIds]

MaxChunks == 16

TooManyChunks == [i \in 1 .. MaxChunks + 1 |-> At(i, 0)]

PostRequests ==
  {PostReq(JNum(1), Arr(cs), JNum(2), JAbsent, NotArray) :
     cs \in {<<At(0, 0)>>, <<At(0, 0), At(1, 0)>>, <<At(3, 0), At(0, 0)>>,
             <<At(10, 10), At(0, 1)>>, <<At(0, 1), At(0, 1)>>,
             <<Member(JHalf(3), JNum(0))>>}}
  \cup {PostReq(JNum(1), Arr(<<At(0, 0), At(1, 0)>>), n, JAbsent, NotArray) :
          n \in {JAbsent, JNum(0), JNum(-1), JNum(60), JNull}}
  \cup {PostReq(JNum(1), Arr(<<At(0, 0), At(3, 0)>>), JNum(1), JNum(7),
                Arr(<<JNum(2), JStr>>))}
  \cup {PostReq(t, Arr(<<At(0, 0)>>), JNum(2), JAbsent, NotArray) :
          t \in {JAbsent, JNull, JStr, JNum(0), JNum(-1), JHalf(3), JNum(IneligibleId)}}
  \cup {PostReq(JNum(1), cs, JNum(2), JAbsent, NotArray) :
          cs \in {NotArray, Arr(<<>>), Arr(TooManyChunks),
                  Arr(<<Member(JStr, JNum(0))>>), Arr(<<Member(JNum(0), JAbsent)>>),
                  Arr(<<At(0, 0), NullMember>>)}}

Requests == GetRequests \cup PostRequests

\* ------------------------------------------------------------------------
\* State
\* ------------------------------------------------------------------------
VARIABLES
  BASIS,      \* let BASIS: the loaded PCA basis, a list of unit vectors
  started,    \* the startup code has run and the server listens
  connSeed,   \* per connection of the pool: the session's RANDOM() generator
  req         \* per request in flight or answered: the handler's locals

vars == <<BASIS, started, connSeed, req>>

\* a vector of the basis artifact: a direction and a length
Vec(dir, len) == [dir |-> dir, len |-> len]

\* normalize(v): v / (norm(v) || 1)
normalize(v) == IF v.len = 0 THEN v ELSE [dir |-> v.dir, len |-> 1]

\* what loadPCABasisFromFile may find at the artifact's path
Artifacts ==
  {[kind |-> "missing", rows |-> <<>>],
   [kind |-> "malformed", rows |-> <<>>],
   [kind |-> "ok", rows |-> <<>>],
   [kind |-> "ok", rows |-> <<Vec(1, 3)>>],
   [kind |-> "ok", rows |-> <<Vec(1, 3), Vec(2, 5)>>]}

\* a load that throws and leaves a built-in basis of two vectors behind
loadOrBuiltIn(old, art) ==
  IF art.kind = "ok" /\ Len(art.rows) >= 2
  THEN [basis |-> [i \in 1 .. Len(art.rows) |-> normalize(art.rows[i])], threw |-> FALSE]
  ELSE [basis |-> <<Vec(1, 1), Vec(2, 1)>>, threw |-> TRUE]

\* loadPCABasisFromFile: [basis |-> BASIS afterwards, threw |-> whether it threw]
loadPCABasisFromFile(old, art) ==
  IF art.kind /= "ok" THEN [basis |-> old, threw |-> TRUE]
  ELSE LET b == [i \in 1 .. Len(art.rows) |-> normalize(art.rows[i])]
       IN  [basis |-> b, threw |-> Len(b) < 2]

\* getBasis(): throws when BASIS is empty
getBasisThrows(basis) == Len(basis) = 0

\* atan2(y, x), kept as the pair of signs of x and y
Sign(n) == IF n > 0 THEN 1 ELSE IF n < 0 THEN 2 ELSE 0
theta(x2, y2) == Sign(x2) + (3 * Sign(y2))

\* pcaDirectionalBias(theta, t): throws when getBasis does, or when U[1] is
\* undefined and read at u2[i]; else the shift of the query on the ring
pcaDirectionalBiasThrows(basis) == getBasisThrows(basis) \/ Len(basis) < 2

pcaDirectionalBias(basis, th, t) ==
  IF lerp(0, 35, t) = 0 THEN 0
  ELSE (basis[1].dir + (th * basis[2].dir)) % RingSize

\* a bias computed in place, in the first vector of the basis
BiasIntoBasis(basis, th, t) ==
  [basis EXCEPT ![1] = Vec(pcaDirectionalBias(basis, th, t), 1)]

\* BASIS as a call of pcaDirectionalBias leaves it: U[0] and U[1] are read,
\* the result is written into dir, a new Float32Array
BasisAfterBias(basis, th, t) == basis

\* sigma * eps on the ring: sigma = lerp(0.05, 0.35, t) > 0
RECURSIVE EpsShift(_)
EpsShift(eps) ==
  IF eps = <<>> THEN 0
  ELSE (WMod(Head(eps)[1], 2) + EpsShift(Tail(eps))) % RingSize

\* The per-chunk values computed before the chunk's pools are fetched
\* (field coords, seed & rng, v' = normalize(v + bias + sigma * eps))
PrepOf(basis, targetId, th, t, seed, g) ==
  [t |-> t, seed |-> seed, rng |-> g.t,
   vp |-> (targetId + pcaDirectionalBias(basis, th, t) + EpsShift(g.eps)) % RingSize]

PrepSeeded(basis, targetId, th, t, seed) ==
  Then(gaussianVector(Dim, seed),
       LAMBDA g : PrepOf(basis, targetId, th, t, seed, g))

ChunkPrep(basis, targetId, x2, y2, globalSeed) ==
  Then(hash32(<<targetId, Trunc2(x2), Trunc2(y2), globalSeed>>),
       LAMBDA seed : PrepSeeded(basis, targetId, theta(x2, y2),
                                Temperature(x2, y2), seed))

NoPrep == [t |-> 0, seed |-> <<0, 0>>, rng |-> <<0, 0>>, vp |-> 0]

\* what was sent: the status, data (GET) or the entries of data (POST), the
\* meta fields weights (GET) and totalChunks (POST)
NoResp ==
  [status |-> 0, data |-> <<>>, chunks |-> <<>>, weights |-> <<>>, totalChunks |-> 0]

ErrorResp(status) == [NoResp EXCEPT !.status = status]

IdleSlot ==
  [pc |-> "idle", in |-> [mode |-> "none"],
   targetId |-> 0,      \* in halves
   chunks |-> <<>>,     \* the chunk (GET) or sortedChunks (POST)
   count |-> 0,         \* the bound of the selection loop
   globalSeed |-> 0,
   excl |-> {},         \* the numeric ids of exclude / excludeIds
   ci |-> 0,            \* chunkIndex + 1 while a chunk is processed
   prep |-> NoPrep,     \* t, seed, rng, v' of the chunk in hand
   simTight |-> <<>>, simDrift |-> <<>>,
   globalUsed |-> {},   \* used (GET) or globalUsed (POST)
   results |-> <<>>,    \* results, in insertion order (GET: the one chunk)
   resp |-> NoResp,
   calls |-> <<>>,      \* the store calls issued so far
   alone |-> TRUE]      \* no other request was in flight on arrival

Init ==
  /\ BASIS = <<>>
  /\ started = FALSE
  /\ connSeed = [c \in Conns |-> [s |-> <<0, c>>, k |-> 0]]
  /\ req = [s \in Slots |-> IdleSlot]

\* The arrivals of a run: the requests take the slots in order. A later
\* request is either the request Other, arriving while the earlier ones wait
\* for setseed or for the random query or are answered (the store reads
\* before setseed touch nothing that is shared, so an earlier arrival adds no
\* outcome), or, once all earlier requests are answered, a replay of one of
\* them or the same request with its chunks listed in reverse.
Other == GetReq(IntTok(1), IntTok(0), IntTok(0), IntTok(3), IntTok(7), NoExclude)

Earlier(s) == {o \in Slots : o < s}

Reverse(seq) == [i \in 1 .. Len(seq) |-> seq[Len(seq) + 1 - i]]

Reversed(in) ==
  IF in.mode = "POST" /\ in.chunks.k = "arr"
  THEN [in EXCEPT !.chunks = Arr(Reverse(in.chunks.items))]
  ELSE in

Arrives(s, in) ==
  /\ req[s].pc = "idle"
  /\ \A o \in Earlier(s) : req[o].pc \in {"setseed", "rand", "done"}
  /\ s > 1 => \/ in = Other
              \/ /\ \A o \in Earlier(s) : req[o].pc = "done"
                 /\ in \in {req[o].in : o \in Earlier(s)}
                           \cup {Reversed(req[o].in) : o \in Earlier(s)}

\* part_001 lines 13-19: try { loadPCABasisFromFile() } catch { warn }, then
\* the routes are mounted and the server listens
Startup(art) ==
  /\ ~started
  /\ BASIS' = loadPCABasisFromFile(BASIS, art).basis
  /\ started' = TRUE
  /\ UNCHANGED <<connSeed, req>>

\* part_001 lines 44-55: GET /health answers at once; it reads neither the
\* basis nor the store
HealthReq == [mode |-> "HEALTH"]

Health(s) ==
  /\ started
  /\ Arrives(s, HealthReq)
  /\ req' = [req EXCEPT ![s] =
       [IdleSlot EXCEPT !.pc = "done", !.in = HealthReq,
                        !.alone = \A o \in Slots : req[o].pc \in {"idle", "done"},
                        !.resp = [NoResp EXCEPT !.status = 200]]]
  /\ UNCHANGED <<BASIS, started, connSeed>>

\* ------------------------------------------------------------------------
\* GET /field-chunk
\* ------------------------------------------------------------------------
DefaultCount == 20
MinCount == 1
MaxCount == 50

\* Math.min(Math.max(parseInt(req.query.count) || 20, 1), 50)
GetCount(tok) ==
  LET n == parseInt(tok)
  IN  Min(Max(IF n.nan \/ n.v = 0 THEN DefaultCount ELSE n.v, MinCount), MaxCount)

\* req.query.seed ? parseInt(req.query.seed) : 0; NaN | 0 is 0 inside hash32
GetSeed(tok) ==
  IF tok.k = "absent" THEN 0
  ELSE IF parseInt(tok).nan THEN 0 ELSE parseInt(tok).v

\* if (!targetId || Number.isNaN(chunkX) || Number.isNaN(chunkY)) return 400
GetBadParams(in) ==
  \/ parseInt(in.targetId).nan
  \/ parseInt(in.targetId).v = 0
  \/ parseInt(in.chunkX).nan
  \/ parseInt(in.chunkY).nan

\* const excludeSet = new Set([targetId]); for (s of exclude.split(','))
\*   { n = parseInt(s); if (!Number.isNaN(n)) excludeSet.add(n) }
GetExcludeSet(targetId, exclude) ==
  {targetId} \cup
  (IF exclude.k = "str"
   THEN {parseInt(exclude.toks[i]).v :
           i \in {j \in 1 .. Len(exclude.toks) : ~parseInt(exclude.toks[j]).nan}}
   ELSE {})

ChunkOf(x2, y2, index) ==
  [x2 |-> x2, y2 |-> y2, originalIndex |-> index, r2 |-> R2(x2, y2)]

\* lines 17-28: the handler up to its first await
GetReceive(s, in) ==
  /\ started
  /\ Arrives(s, in)
  /\ in \in GetRequests
  /\ LET alone == \A o \in Slots : req[o].pc \in {"idle", "done"}
     IN  IF GetBadParams(in)
         THEN req' = [req EXCEPT ![s] =
                [IdleSlot EXCEPT !.pc = "done", !.in = in, !.alone = alone,
                                 !.resp = ErrorResp(400)]]
         ELSE req' = [req EXCEPT ![s] =
                [IdleSlot EXCEPT !.pc = "focal", !.in = in, !.alone = alone,
                   !.targetId = 2 * parseInt(in.targetId).v,
                   !.chunks = <<ChunkOf(2 * parseInt(in.chunkX).v,
                                        2 * parseInt(in.chunkY).v, 0)>>,
                   !.count = GetCount(in.count),
                   !.globalSeed = GetSeed(in.seed)]]
  /\ UNCHANGED <<BASIS, started, connSeed>>

\* ------------------------------------------------------------------------
\* POST /field-chunks
\* ------------------------------------------------------------------------
\* if (!targetId || typeof targetId !== 'number') return 400
PostBadTarget(in) == ~IsNumber(in.targetId) \/ in.targetId.v2 = 0

\* if (!Array.isArray(chunks) || chunks.length === 0 || chunks.length > 16)
PostBadChunks(in) ==
  \/ in.chunks.k /= "arr"
  \/ Len(in.chunks.items) = 0
  \/ Len(in.chunks.items) > MaxChunks

\* for (const chunk of chunks) if (typeof chunk.x !== 'number' || ...) return
\* 400: the outcome of the loop, "ok", "bad" (400) or "throw" (chunk is null)
RECURSIVE MembersCheck(_)
MembersCheck(items) ==
  IF items = <<>> THEN "ok"
  ELSE IF Head(items).k = "null" THEN "throw"
  ELSE IF ~IsNumber(Head(items).x) \/ ~IsNumber(Head(items).y) THEN "bad"
  ELSE MembersCheck(Tail(items))

\* const { count = 20 } = body; Math.min(Math.max(count, 1), 50), in halves
PostCount2(j) ==
  LET c2 == IF j.k = "absent" THEN 2 * DefaultCount
            ELSE IF j.k = "null" THEN 0
            ELSE j.v2
  IN  Min(Max(c2, 2 * MinCount), 2 * MaxCount)

\* the number of iterations of for (i = 0; i < actualCount; i++)
Iterations(c2) == (c2 + 1) \div 2

\* seed: globalSeed = 0; n | 0 inside hash32
PostSeed(j) == IF j.k = "num" THEN Trunc2(j.v2) ELSE 0

\* Array.isArray(excludeIds) ? excludeIds.filter(id => typeof id === 'number') : []
\* as the set of ids it names: a number that is no integer stays in the list
\* and equals no id
PostExcludeIds(e) ==
  IF e.k = "arr"
  THEN {e.items[i].v2 \div 2 :
          i \in {j \in 1 .. Len(e.items) :
                   IsNumber(e.items[j]) /\ IsInteger2(e.items[j].v2)}}
  ELSE {}

\* the chunks in the order of the request's list
chunksAsListed(items) ==
  [i \in 1 .. Len(items) |-> ChunkOf(items[i].x.v2, items[i].y.v2, i - 1)]

\* chunks.map((chunk, index) => ({...chunk, originalIndex: index, r}))
\*       .sort((a, b) => a.r - b.r): a stable sort
RECURSIVE InsertByR(_, _)
InsertByR(sorted, c) ==
  IF sorted = <<>> THEN <<c>>
  ELSE IF c.r2 < Head(sorted).r2 THEN <<c>> \o sorted
  ELSE <<Head(sorted)>> \o InsertByR(Tail(sorted), c)

RECURSIVE SortByR(_, _)
SortByR(done, rest) ==
  IF rest = <<>> THEN done
  ELSE SortByR(InsertByR(done, Head(rest)), Tail(rest))

sortedChunks(items) ==
  SortByR(<<>>, [i \in 1 .. Len(items) |->
                   ChunkOf(items[i].x.v2, items[i].y.v2, i - 1)])

\* lines 183-217: the handler up to its first await
PostReceive(s, in) ==
  /\ started
  /\ Arrives(s, in)
  /\ LET alone == \A o \in Slots : req[o].pc \in {"idle", "done"}
         answer(status) ==
           [IdleSlot EXCEPT !.pc = "done", !.in = in, !.alone = alone,
                            !.resp = ErrorResp(status)]
     IN  IF PostBadTarget(in) \/ PostBadChunks(in)
           THEN req' = [req EXCEPT ![s] = answer(400)]
         ELSE IF MembersCheck(in.chunks.items) = "bad"
           THEN req' = [req EXCEPT ![s] = answer(400)]
         ELSE IF MembersCheck(in.chunks.items) = "throw"
           THEN req' = [req EXCEPT ![s] = answer(500)]
         ELSE req' = [req EXCEPT ![s] =
                [IdleSlot EXCEPT !.pc = "focal", !.in = in, !.alone = alone,
                   !.targetId = in.targetId.v2,
                   !.chunks = sortedChunks(in.chunks.items),
                   !.count = Iterations(PostCount2(in.count)),
                   !.globalSeed = PostSeed(in.seed),
                   !.excl = PostExcludeIds(in.excludeIds)]]
  /\ UNCHANGED <<BASIS, started, connSeed>>

\* ------------------------------------------------------------------------
\* Store calls and what follows each of them up to the next await
\* ------------------------------------------------------------------------
IsGet(r) == r.in.mode = "GET"

\* an error answer after which the handler goes on
AnswerAndGoOn(r, status) == [r EXCEPT !.resp = ErrorResp(status)]

\* an error answer that carries the chunks completed so far
AnswerPartial(r, status) ==
  [r EXCEPT !.pc = "done", !.resp = [ErrorResp(status) EXCEPT !.chunks = r.results]]

Answer(r, status) == [r EXCEPT !.pc = "done", !.resp = ErrorResp(status)]

Called(r, kind) == [r EXCEPT !.calls = Append(r.calls, kind)]

\* WHERE id = targetId AND "imgVec" IS NOT NULL AND "localImageUrl" ...
TargetFound(targetId2) == IsInteger2(targetId2) /\ (targetId2 \div 2) \in Eligible

FocalId(r) == r.targetId \div 2

\* the chunk in hand
Cur(r) == r.chunks[r.ci]

\* a loop that repeats the tight query for every chunk after the first
BeginChunkRequery(r, basis, ci) ==
  IF pcaDirectionalBiasThrows(basis) THEN Answer(r, 500)
  ELSE [r EXCEPT !.pc = "drift", !.ci = ci,
                 !.calls = IF ci > 1 THEN Append(r.calls, "tight") ELSE r.calls,
                 !.prep = ChunkPrep(basis, FocalId(r), r.chunks[ci].x2,
                                    r.chunks[ci].y2, r.globalSeed)]

\* the first lines of a chunk's processing, up to the drift query: a throw
\* of pcaDirectionalBias ends the request in the catch block (500)
BeginChunk(r, basis, ci) ==
  IF pcaDirectionalBiasThrows(basis) THEN Answer(r, 500)
  ELSE [r EXCEPT !.pc = "drift", !.ci = ci,
                 !.prep = ChunkPrep(basis, FocalId(r), r.chunks[ci].x2,
                                    r.chunks[ci].y2, r.globalSeed)]

\* BASIS after a step that took the request from before to after: a step
\* that begins a chunk calls pcaDirectionalBias for it
BasisLeft(before, after, basis) ==
  IF after.ci /= before.ci
  THEN BasisAfterBias(basis, theta(Cur(after).x2, Cur(after).y2), after.prep.t)
  ELSE basis

\* lines 31-72 (GET), 220-266 (POST): the focal lookup returned
GetBegun(r, b) ==
  IF b.pc = "done" THEN b
  ELSE [b EXCEPT !.pc = "tight", !.excl = GetExcludeSet(FocalId(r), r.in.exclude)]

\* the handler with the test of target moved behind the tight query
AfterFocalLate(r, basis) ==
  IF ~TargetFound(r.targetId) THEN Answer(Called(r, "tight"), 404)
  ELSE IF IsGet(r) THEN GetBegun(r, BeginChunk(r, basis, 1))
  ELSE [r EXCEPT !.pc = "tight", !.globalUsed = {FocalId(r)} \cup r.excl]

AfterFocal(r, basis) ==
  IF ~TargetFound(r.targetId) THEN Answer(r, 404)
  ELSE IF IsGet(r) THEN GetBegun(r, BeginChunk(r, basis, 1))
  ELSE [r EXCEPT !.pc = "tight", !.globalUsed = {FocalId(r)} \cup r.excl]

StoreFocal(s) ==
  /\ req[s].pc = "focal"
  /\ \E r \in {Called(req[s], "focal")} :
       \E after \in {AfterFocal(r, BASIS)} :
         /\ req' = [req EXCEPT ![s] = after]
         /\ BASIS' = BasisLeft(r, after, BASIS)
  /\ UNCHANGED <<started, connSeed>>

\* what the SQL of the pools excludes besides the target: nothing (GET),
\* excludeClause (POST)
SqlExcluded(r) == IF IsGet(r) THEN {} ELSE {FocalId(r)} \cup r.excl

NChunks(r) == Len(r.chunks)

\* The LIMIT of a query. The corpus of the model is RowsPerId times smaller
\* than the table the limits of the code were chosen for, and so are the
\* limits: LIMIT 200 keeps Rows(200) rows.
Rows(n) == n \div RowsPerId

simTightLimit(r) ==
  IF IsGet(r) THEN Rows(200) ELSE Min(Rows(500), NChunks(r) * Rows(125))
simDriftLimit(r) ==
  IF IsGet(r) THEN Rows(400)
  ELSE Min(Rows(400), Min(Rows(800), NChunks(r) * Rows(200)))
randLimit(r) ==
  IF IsGet(r) THEN Rows(800)
  ELSE Min(Rows(800), Min(Rows(1200), NChunks(r) * Rows(300)))

\* lines 76-83 (GET), 268-299 (POST): the tight query returned
StoreTight(s) ==
  /\ req[s].pc = "tight"
  /\ \E r \in {[Called(req[s], "tight") EXCEPT !.simTight =
                   NearestQuery(FocalId(req[s]), FocalId(req[s]),
                                SqlExcluded(req[s]), simTightLimit(req[s]))]} :
       \E after \in {IF IsGet(r) THEN [r EXCEPT !.pc = "drift"]
                      ELSE BeginChunk(r, BASIS, 1)} :
         /\ req' = [req EXCEPT ![s] = after]
         /\ BASIS' = BasisLeft(r, after, BASIS)
  /\ UNCHANGED <<started, connSeed>>

\* lines 85-92 (GET), 302-309 (POST): the drift query returned
StoreDrift(s) ==
  /\ req[s].pc = "drift"
  /\ \E r \in {Called(req[s], "drift")} :
       req' = [req EXCEPT ![s] =
         [r EXCEPT !.pc = "setseed",
                   !.simDrift = NearestQuery(r.prep.vp, FocalId(r), SqlExcluded(r),
                                             simDriftLimit(r))]]
  /\ UNCHANGED <<BASIS, started, connSeed>>

\* line 94 (GET), 312 (POST): SELECT setseed(...) ran on connection c
StoreSetseed(s, c) ==
  /\ req[s].pc = "setseed"
  /\ connSeed' = [connSeed EXCEPT ![c] = SetSeed(seedToPgFloat(req[s].prep.seed))]
  /\ req' = [req EXCEPT ![s] = [Called(req[s], "setseed") EXCEPT !.pc = "rand"]]
  /\ UNCHANGED <<BASIS, started>>

\* line 113: r < 2 ? hash32(chunkX + 100, chunkY + 100) % 50 : 0
spatialOffset(ch) ==
  IF ch.r2 < 16
  THEN WMod(hash32(<<Trunc2(ch.x2 + 200), Trunc2(ch.y2 + 200)>>), 50)
  ELSE 0

\* an offset taken from the chunk index at every radius
offsetByIndex(ch, globalSd, chIdx) == chIdx * 25

\* lines 322-328: getSpatialOffset(cx, cy, globalSd, chIdx)
getSpatialOffset(ch, globalSd, chIdx) ==
  IF ch.r2 < 36
  THEN WMod(hash32(<<Trunc2(ch.x2 + 200), Trunc2(ch.y2 + 200), globalSd, chIdx>>), 100)
  ELSE chIdx * 25

\* getSpatialOffset is called with the loop's chunkIndex
OffsetOf(r) ==
  IF IsGet(r) THEN spatialOffset(Cur(r))
  ELSE getSpatialOffset(Cur(r), r.globalSeed, r.ci - 1)

\* used = new Set() that forgets the exclude list
UsedFocalOnly(r) == {FocalId(r)}

\* used = new Set(excludeSet) (GET); chunkUsed = new Set(globalUsed) (POST)
UsedAtStart(r) == IF IsGet(r) THEN r.excl ELSE r.globalUsed

\* `${n}` of a number kept in halves: "3", "-3", "1.5", "-0.5"
NumStr(n2) ==
  IF n2 % 2 = 0 THEN ToString(n2 \div 2)
  ELSE IF n2 < 0 THEN "-" \o ToString((-n2) \div 2) \o ".5"
  ELSE ToString(n2 \div 2) \o ".5"

\* a key made of the y coordinate only
chunkKeyY(x2, y2) == NumStr(y2)

\* line 389: const chunkKey = `${chunkX},${chunkY}`
chunkKey(x2, y2) == NumStr(x2) \o "," \o NumStr(y2)

\* lines 103-153 (GET), 330-403 (POST): queues, selection loop, formatting.
\* The fields under trace are the chunk's locals, kept for the properties.
EntryOf(r, randPool, off, qs, smp) ==
  [key |-> chunkKey(Cur(r).x2, Cur(r).y2),
   chunk |-> [x2 |-> Cur(r).x2, y2 |-> Cur(r).y2],
   artworks |-> FormatItems(smp.out),
   t |-> r.prep.t,
   weights |-> MetaWeights(r.prep.t),
   trace |-> [chunkIndex |-> r.ci - 1, originalIndex |-> Cur(r).originalIndex,
              offset |-> off, seed |-> r.prep.seed,
              simTight |-> r.simTight, simDrift |-> r.simDrift,
              randPool |-> randPool, queues |-> qs,
              usedAtStart |-> UsedAtStart(r),
              usedAtEnd |-> smp.used, draws |-> smp.draws, taken |-> smp.taken,
              left |-> smp.qs,
              rngStart |-> r.prep.rng, rngEnd |-> smp.rng]]

EntrySampled(r, randPool, off, qs) ==
  Then(Sample(qs.sim, qs.drift, qs.rand, UsedAtStart(r), r.prep.rng, r.count, r.prep.t),
       LAMBDA smp : EntryOf(r, randPool, off, qs, smp))

\* lines 115-117 (GET), 333-335 (POST): simTightQ, simDriftQ, randQ
Queues(r, randPool, off) ==
  [sim |-> Tag(Rotate(r.simTight, off), "sim"),
   drift |-> Tag(Rotate(r.simDrift, off), "drift"),
   rand |-> Tag(randPool, "rand")]

EntryAt(r, randPool, off) ==
  Then(Queues(r, randPool, off), LAMBDA qs : EntrySampled(r, randPool, off, qs))

ChunkEntry(r, randPool) == Then(OffsetOf(r), LAMBDA off : EntryAt(r, randPool, off))

\* results[chunkKey] = {...}: a key already present keeps its place
Put(results, e) ==
  IF \E i \in 1 .. Len(results) : results[i].key = e.key
  THEN [i \in 1 .. Len(results) |-> IF results[i].key = e.key THEN e ELSE results[i]]
  ELSE Append(results, e)

Public(results) ==
  [i \in 1 .. Len(results) |->
     [key |-> results[i].key, chunk |-> results[i].chunk,
      artworks |-> results[i].artworks, t |-> results[i].t,
      weights |-> results[i].weights]]

Ids(items) == {items[i].id : i \in 1 .. Len(items)}

\* a loop that never adds to globalUsed
addNone(globalUsed, items) == globalUsed

\* a set that holds the ids of the chunk in hand only
addOnly(globalUsed, items) == Ids(items)

\* line 371: globalUsed.add(cand.id), for every item of the chunk
addUsed(globalUsed, items) == globalUsed \cup Ids(items)

\* a chunk that shifts its elements out of the shared pool itself
TightConsumed(globalSimTight, e) ==
  [i \in 1 .. Len(e.trace.left.sim) |->
     [id |-> e.trace.left.sim[i].id, sim |-> e.trace.left.sim[i].sim]]

\* globalSimTight as a chunk leaves it: slice, concat and map at line 333
\* build a new array of new objects, and takeNext shifts that array
TightAfterChunk(globalSimTight, e) == globalSimTight

\* lines 103-175 (GET), 321-422 (POST): the random-ordered query returned
AfterRand(r, e, basis) ==
  IF IsGet(r)
  THEN [r EXCEPT !.pc = "done", !.results = <<e>>,
                 !.globalUsed = e.trace.usedAtEnd,
                 !.resp = [status |-> 200, data |-> e.artworks, chunks |-> <<>>,
                           weights |-> e.weights, totalChunks |-> 0]]
  ELSE LET r1 == [r EXCEPT !.results = Put(r.results, e),
                           !.simTight = TightAfterChunk(r.simTight, e),
                           !.globalUsed = addUsed(r.globalUsed, e.artworks)]
       IN  IF r.ci < NChunks(r) THEN BeginChunk(r1, basis, r.ci + 1)
           ELSE [r1 EXCEPT !.pc = "done",
                           !.resp = [status |-> 200, data |-> <<>>,
                                     chunks |-> Public(r1.results),
                                     weights |-> <<>>,
                                     totalChunks |-> Len(r.in.chunks.items)]]

\* lines 95-101 (GET), 313-319 (POST): the query ran on connection c
StoreRand(s, c) ==
  /\ req[s].pc = "rand"
  /\ \E r \in {Called(req[s], "rand")} :
       \E pool \in {RandomQuery(connSeed[c], FocalId(r), SqlExcluded(r),
                                randLimit(r))} :
         \E e \in {ChunkEntry(r, pool)} :
           \E after \in {AfterRand(r, e, BASIS)} :
             /\ req' = [req EXCEPT ![s] = after]
             /\ BASIS' = BasisLeft(r, after, BASIS)
             /\ connSeed' = [connSeed EXCEPT ![c] =
                  RandomQueryAdvance(connSeed[c], FocalId(r), SqlExcluded(r))]
  /\ UNCHANGED started

\* lines 176-179 (GET), 424-431 (POST): a store call rejects; the catch block
\* answers 500
StoreFails(s) ==
  /\ req[s].pc \in {"focal", "tight", "drift", "setseed", "rand"}
  /\ req' = [req EXCEPT ![s] = Answer(Called(req[s], req[s].pc), 500)]
  /\ UNCHANGED <<BASIS, started, connSeed>>

Next ==
  \/ \E art \in Artifacts : Startup(art)
  \/ \E s \in Slots, in \in GetRequests : GetReceive(s, in)
  \/ \E s \in Slots, in \in PostRequests : PostReceive(s, in)
  \/ \E s \in Slots : StoreFocal(s)
  \/ \E s \in Slots : StoreTight(s)
  \/ \E s \in Slots : StoreDrift(s)
  \/ \E s \in Slots, c \in Conns : StoreSetseed(s, c)
  \/ \E s \in Slots, c \in Conns : StoreRand(s, c)
  \/ \E s \in Slots : StoreFails(s)
  \/ \E s \in Slots : Health(s)

Spec == Init /\ [][Next]_vars

\* Every awaited store call settles: the driver rejects or resolves the
\* promise, and the event loop then runs the handler up to its next await
StoreReturns ==
  \E s \in Slots :
    \/ StoreFails(s)
    \/ StoreFocal(s)
    \/ StoreTight(s)
    \/ StoreDrift(s)
    \/ \E c \in Conns : StoreSetseed(s, c)
    \/ \E c \in Conns : StoreRand(s, c)

\* ------------------------------------------------------------------------
\* The weights of every temperature, and the temperature of every chunk
\* ------------------------------------------------------------------------
\* the weights object of the response meta for a chunk of temperature t
WeightsResp(t) == [NoResp EXCEPT !.status = 200, !.weights = MetaWeights(t)]

WeightsInit ==
  /\ BASIS = <<>>
  /\ started = FALSE
  /\ connSeed = [c \in Conns |-> [s |-> <<0, c>>, k |-> 0]]
  /\ \E t \in 0 .. TScale :
       req = [s \in Slots |-> [IdleSlot EXCEPT !.prep = [NoPrep EXCEPT !.t = t]]]

\* lines 103-106 and 166-170: wSim, wDrift, wRand and their rounding
ReportWeights(s) ==
  /\ req[s].pc = "idle"
  /\ req' = [req EXCEPT ![s] = [req[s] EXCEPT !.pc = "done",
                                              !.resp = WeightsResp(req[s].prep.t)]]
  /\ UNCHANGED <<BASIS, started, connSeed>>

WeightsNext == \E s \in Slots : ReportWeights(s)

WeightsSpec == WeightsInit /\ [][WeightsNext]_vars

CoordMax == 13

Coords == (-CoordMax) .. CoordMax

TemperatureInit ==
  /\ BASIS = <<>>
  /\ started = FALSE
  /\ connSeed = [c \in Conns |-> [s |-> <<0, c>>, k |-> 0]]
  /\ \E x \in Coords, y \in Coords :
       req = [s \in Slots |-> [IdleSlot EXCEPT !.chunks = <<ChunkOf(2 * x, 2 * y, 0)>>,
                                               !.ci = 1]]

\* lines 49-50: r = Math.hypot(chunkX, chunkY); t = smoothstep(1.5, 12.0, r)
FieldCoords(s) ==
  /\ req[s].pc = "idle"
  /\ req' = [req EXCEPT ![s] =
       [req[s] EXCEPT !.pc = "done",
                      !.prep = [NoPrep EXCEPT !.t = Temperature(Cur(req[s]).x2,
                                                                Cur(req[s]).y2)]]]
  /\ UNCHANGED <<BASIS, started, connSeed>>

TemperatureNext == \E s \in Slots : FieldCoords(s)

TemperatureSpec == TemperatureInit /\ [][TemperatureNext]_vars

\* ------------------------------------------------------------------------
\* The spatial offset of every chunk near the origin, at every chunk index
\* ------------------------------------------------------------------------
OffsetMax == 4

OffsetCoords == (-OffsetMax) .. OffsetMax

\* a handler about to compute the offset of chunk (x, y): the one chunk of a
\* GET, or the chunk at chunkIndex k of a POST with seed globalSeed
OffsetSlot(mode, x, y, k, seed) ==
  [IdleSlot EXCEPT !.in = [mode |-> mode],
                   !.chunks = [i \in 1 .. k + 1 |-> ChunkOf(2 * x, 2 * y, i - 1)],
                   !.ci = k + 1,
                   !.globalSeed = seed]

OffsetInit ==
  /\ BASIS = <<>>
  /\ started = FALSE
  /\ connSeed = [c \in Conns |-> [s |-> <<0, c>>, k |-> 0]]
  /\ \E x \in OffsetCoords, y \in OffsetCoords :
       \/ req = [s \in Slots |-> OffsetSlot("GET", x, y, 0, 0)]
       \/ \E k \in 0 .. MaxChunks - 1, seed \in {0, 7} :
            req = [s \in Slots |-> OffsetSlot("POST", x, y, k, seed)]

\* line 113 (GET), lines 322-330 (POST): const spatialOffset = ...
ComputeOffset(s) ==
  /\ req[s].pc = "idle"
  /\ req' = [req EXCEPT ![s] =
       [req[s] EXCEPT !.pc = "done",
                      !.results = <<[trace |-> [chunkIndex |-> req[s].ci - 1,
                                                offset |-> OffsetOf(req[s])]]>>]]
  /\ UNCHANGED <<BASIS, started, connSeed>>

OffsetNext == \E s \in Slots : ComputeOffset(s)

OffsetSpec == OffsetInit /\ [][OffsetNext]_vars

\* ------------------------------------------------------------------------
\* The queues of a chunk, for every length of its pools and every offset
\* ------------------------------------------------------------------------
PoolMax == 3
RotMax == 4

\* the first n rows a query returned
PoolRows(n) == [i \in 1 .. n |-> [id |-> i, sim |-> {i}]]

\* the rows of a random-ordered query: no sim column
RandRows(n) == [i \in 1 .. n |-> [id |-> n + 1 - i, sim |-> {}]]

RotateInit ==
  /\ BASIS = <<>>
  /\ started = FALSE
  /\ connSeed = [c \in Conns |-> [s |-> <<0, c>>, k |-> 0]]
  /\ \E mode \in {"GET", "POST"}, nt \in 0 .. PoolMax, nd \in 0 .. PoolMax :
       req = [s \in Slots |-> [IdleSlot EXCEPT !.in = [mode |-> mode],
                                               !.simTight = PoolRows(nt),
                                               !.simDrift = PoolRows(nd)]]

\* lines 115-117 (GET), 333-335 (POST) for a chunk whose offset is off and
\* whose random-ordered query returned randPool
BuildQueues(s, off, randPool) ==
  /\ req[s].pc = "idle"
  /\ req' = [req EXCEPT ![s] =
       [req[s] EXCEPT !.pc = "done",
                      !.results = <<[trace |-> [offset |-> off,
                                                simTight |-> req[s].simTight,
                                                simDrift |-> req[s].simDrift,
                                                randPool |-> randPool,
                                                queues |-> Queues(req[s], randPool, off)]]>>]]
  /\ UNCHANGED <<BASIS, started, connSeed>>

RotateNext ==
  \E s \in Slots, off \in 0 .. RotMax, nr \in 0 .. PoolMax : BuildQueues(s, off, RandRows(nr))

RotateSpec == RotateInit /\ [][RotateNext]_vars

\* ------------------------------------------------------------------------
\* One multi-chunk request, and then the same chunks listed the other way
\* round
\* ------------------------------------------------------------------------
RelistRequests ==
  {PostReq(JNum(1), Arr(cs), JNum(2), JAbsent, NotArray) :
     cs \in {<<At(3, 0), At(0, 0)>>, <<At(0, 0), At(3, 0)>>,
             <<At(0, 0), At(1, 0), At(3, 0)>>, <<At(3, 0), At(1, 0), At(0, 0)>>}}

\* the server after a startup that loaded a basis of two vectors
RelistInit ==
  /\ BASIS = loadPCABasisFromFile(<<>>, [kind |-> "ok",
                                        rows |-> <<Vec(1, 3), Vec(2, 5)>>]).basis
  /\ started = TRUE
  /\ connSeed = [c \in Conns |-> [s |-> <<0, c>>, k |-> 0]]
  /\ req = [s \in Slots |-> IdleSlot]

RelistNext ==
  \/ \E s \in Slots, in \in RelistRequests : PostReceive(s, in)
  \/ \E s \in Slots : StoreFocal(s)
  \/ \E s \in Slots : StoreTight(s)
  \/ \E s \in Slots : StoreDrift(s)
  \/ \E s \in Slots, c \in Conns : StoreSetseed(s, c)
  \/ \E s \in Slots, c \in Conns : StoreRand(s, c)

RelistSpec == RelistInit /\ [][RelistNext]_vars

\* ------------------------------------------------------------------------
\* Requests of every outcome, with store calls that always settle
\* ------------------------------------------------------------------------
AnswerGets ==
  {Other,
   GetReq(IntTok(1), IntTok(3), IntTok(0), IntTok(2), Absent, NoExclude),
   GetReq(Junk, IntTok(3), IntTok(0), IntTok(2), Absent, NoExclude),
   GetReq(IntTok(IneligibleId), IntTok(3), IntTok(0), IntTok(2), Absent, NoExclude)}

AnswerPosts ==
  {PostReq(JNum(1), Arr(<<At(0, 0), At(1, 0)>>), JNum(2), JAbsent, NotArray),
   PostReq(JNum(1), Arr(<<At(0, 0), NullMember>>), JNum(2), JAbsent, NotArray),
   PostReq(JNum(1), Arr(<<>>), JNum(2), JAbsent, NotArray)}

AnswerNext ==
  \/ \E art \in {a \in Artifacts : a.kind = "missing" \/ Len(a.rows) = 2} : Startup(art)
  \/ \E s \in Slots, in \in AnswerGets : GetReceive(s, in)
  \/ \E s \in Slots, in \in AnswerPosts : PostReceive(s, in)
  \/ \E s \in Slots : StoreFocal(s)
  \/ \E s \in Slots : StoreTight(s)
  \/ \E s \in Slots : StoreDrift(s)
  \/ \E s \in Slots, c \in Conns : StoreSetseed(s, c)
  \/ \E s \in Slots, c \in Conns : StoreRand(s, c)
  \/ \E s \in Slots : StoreFails(s)

AnswerSpec == Init /\ [][AnswerNext]_vars /\ WF_vars(StoreReturns)

\* ------------------------------------------------------------------------
\* hash32 and the store seed, for every short argument list
\* ------------------------------------------------------------------------
HashMax == 2
HashLen == 4

HashVals == ((-HashMax) .. HashMax) \cup {65537, 2147483647}

HashLists == UNION {[1 .. n -> HashVals] : n \in 0 .. HashLen}

HashSlot(nums) == [IdleSlot EXCEPT !.in = [mode |-> "HASH", nums |-> nums]]

\* two callers: the second passes the same arguments, or the same arguments
\* in reverse
HashInit ==
  /\ BASIS = <<>>
  /\ started = FALSE
  /\ connSeed = [c \in Conns |-> [s |-> <<0, c>>, k |-> 0]]
  /\ \E nums \in HashLists, swap \in BOOLEAN :
       req = [s \in Slots |->
                HashSlot(IF s = 1 \/ ~swap THEN nums ELSE Reverse(nums))]

\* part_002 lines 5-13 and fieldChunk.ts line 15: seed = hash32(...nums);
\* seedToPgFloat(seed)
ComputeSeed(s) ==
  /\ req[s].pc = "idle"
  /\ \E seed \in {hash32(req[s].in.nums)} :
       req' = [req EXCEPT ![s] =
         [req[s] EXCEPT !.pc = "done",
                        !.results = <<[trace |-> [seed |-> seed,
                                                  pgFloat |-> seedToPgFloat(seed)]]>>]]
  /\ UNCHANGED <<BASIS, started, connSeed>>

HashNext == \E s \in Slots : ComputeSeed(s)

HashSpec == HashInit /\ [][HashNext]_vars

\* ------------------------------------------------------------------------
\* Properties
\* ------------------------------------------------------------------------
Answered(s) == req[s].pc = "done"

\* a request of one of the two field endpoints
IsField(r) == r.in.mode \in {"GET", "POST"}

Succeeded(s) == Answered(s) /\ IsField(req[s]) /\ req[s].resp.status = 200

\* the id lists of a response: data (GET), the artworks of each key (POST)
ReturnedLists(r) ==
  IF IsGet(r) THEN <<r.resp.data>>
  ELSE [i \in 1 .. Len(r.resp.chunks) |-> r.resp.chunks[i].artworks]

IdSeq(items) == [i \in 1 .. Len(items) |-> items[i].id]

NoRepeat(items) ==
  \A a, b \in 1 .. Len(items) : a /= b => items[a].id /= items[b].id

\* the ids the request's exclude list names
ListedExcludes(in) ==
  IF in.mode = "GET"
  THEN IF in.exclude.k = "str"
       THEN {in.exclude.toks[i].v :
               i \in {j \in 1 .. Len(in.exclude.toks) : in.exclude.toks[j].k = "int"}}
       ELSE {}
  ELSE IF in.excludeIds.k = "arr"
       THEN {in.excludeIds.items[i].v2 \div 2 :
               i \in {j \in 1 .. Len(in.excludeIds.items) :
                        /\ IsNumber(in.excludeIds.items[j])
                        /\ IsInteger2(in.excludeIds.items[j].v2)}}
       ELSE {}

\* C1: no id is returned twice by one request, neither inside one list nor
\* in the lists of two keys
C1_NoIdTwice ==
  \A s \in Slots : Succeeded(s) =>
    /\ \A i \in DOMAIN ReturnedLists(req[s]) : NoRepeat(ReturnedLists(req[s])[i])
    /\ \A i, j \in DOMAIN ReturnedLists(req[s]) :
         i /= j => Ids(ReturnedLists(req[s])[i]) \cap Ids(ReturnedLists(req[s])[j]) = {}

\* a multi-chunk answer with two non-empty lists, whose chunks saw the same
\* ids in their tight, drift and random pools
C1_Witness ==
  \E s \in Slots :
    /\ Succeeded(s)
    /\ ~IsGet(req[s])
    /\ Len(req[s].results) = 2
    /\ \A i \in 1 .. 2 :
         /\ Len(req[s].results[i].artworks) > 0
         /\ Ids(req[s].results[i].trace.simTight)
              \cap Ids(req[s].results[i].trace.randPool) /= {}
    /\ Ids(req[s].results[1].trace.simDrift)
         \cap Ids(req[s].results[2].trace.simDrift) /= {}

\* C2: every returned id differs from the focal id and from every id the
\* request's exclude list names
C2_NotFocalNotExcluded ==
  \A s \in Slots : Succeeded(s) =>
    \A i \in DOMAIN ReturnedLists(req[s]) :
      /\ FocalId(req[s]) \notin Ids(ReturnedLists(req[s])[i])
      /\ Ids(ReturnedLists(req[s])[i]) \cap ListedExcludes(req[s].in) = {}

\* an answer with items, to a request that lists an id which a pool of the
\* chunk delivered
C2_Witness ==
  \E s \in Slots :
    /\ Succeeded(s)
    /\ \E i \in 1 .. Len(req[s].results) :
         /\ Len(req[s].results[i].artworks) > 0
         /\ ListedExcludes(req[s].in)
              \cap (Ids(req[s].results[i].trace.simTight)
                      \cup Ids(req[s].results[i].trace.randPool)) /= {}

\* the count a request supplies, in halves
SuppliesCount(in) ==
  IF in.mode = "GET" THEN in.count.k = "int" ELSE in.count.k = "num"

SuppliedCount2(in) == IF in.mode = "GET" THEN 2 * in.count.v ELSE in.count.v2

\* C3: the number of items returned for a chunk is at most
\* clamp(count, 1, 50), for every count the request supplies
C3_CountBound ==
  \A s \in Slots : (Succeeded(s) /\ SuppliesCount(req[s].in)) =>
    \A i \in DOMAIN ReturnedLists(req[s]) :
      2 * Len(ReturnedLists(req[s])[i])
        <= Min(Max(SuppliedCount2(req[s].in), 2 * MinCount), 2 * MaxCount)

\* C4: a request replayed after its first run was answered returns the same
\* id sequences
C4_ReplayReturnsSame ==
  \A a, b \in Slots :
    (/\ a < b
     /\ Succeeded(a) /\ Succeeded(b)
     /\ req[b].alone
     /\ req[a].in = req[b].in)
    => [i \in DOMAIN ReturnedLists(req[a]) |-> IdSeq(ReturnedLists(req[a])[i])]
         = [i \in DOMAIN ReturnedLists(req[b]) |-> IdSeq(ReturnedLists(req[b])[i])]

\* the random pool of a chunk when its query runs right after its own
\* setseed on the same session
OwnSeedPool(r, e) ==
  RandomQuery(SetSeed(seedToPgFloat(e.trace.seed)), FocalId(r), SqlExcluded(r),
              randLimit(r))

\* what the sampler returns for the chunk from that pool
OwnSeedItems(r, e) ==
  FormatItems(Sample(Tag(Rotate(e.trace.simTight, e.trace.offset), "sim"),
                     Tag(Rotate(e.trace.simDrift, e.trace.offset), "drift"),
                     Tag(OwnSeedPool(r, e), "rand"),
                     e.trace.usedAtStart, e.trace.rngStart, r.count, e.t).out)

\* C5: the ids returned for a chunk are those its own seed determines,
\* whatever ran on the pool's connections between its setseed call and its
\* random-ordered query
C5_OwnSeedDecides ==
  \A s \in Slots : Succeeded(s) =>
    \A i \in 1 .. Len(req[s].results) :
      req[s].results[i].artworks = OwnSeedItems(req[s], req[s].results[i])

\* the row of a pool that carries the id
RowOf(pool, id) == CHOOSE row \in {pool[i] : i \in 1 .. Len(pool)} : row.id = id

PoolOf(e, source) ==
  IF source = "sim" THEN e.trace.simTight
  ELSE IF source = "drift" THEN e.trace.simDrift
  ELSE e.trace.randPool

\* C6: every item carries the label of the pool it came out of; a rand item
\* has similarity null, a sim or drift item the similarity of its pool row
C6_SourceAndSimilarity ==
  \A s \in Slots : Succeeded(s) =>
    \A i \in 1 .. Len(req[s].results) :
      \A k \in 1 .. Len(req[s].results[i].artworks) :
        /\ req[s].results[i].artworks[k].source = req[s].results[i].trace.taken[k]
        /\ req[s].results[i].artworks[k].id
             \in Ids(PoolOf(req[s].results[i], req[s].results[i].artworks[k].source))
        /\ IF req[s].results[i].artworks[k].source = "rand"
           THEN req[s].results[i].artworks[k].similarity = {}
           ELSE /\ req[s].results[i].artworks[k].similarity /= {}
                /\ req[s].results[i].artworks[k].similarity
                     = RowOf(PoolOf(req[s].results[i],
                                    req[s].results[i].artworks[k].source),
                             req[s].results[i].artworks[k].id).sim

\* answers in which an item was reached by fallback from another primary
\* choice, in which an item is a rand item and in which an item is a sim item
SomeItem(P(_, _)) ==
  \E s \in Slots :
    /\ Succeeded(s)
    /\ \E i \in 1 .. Len(req[s].results) :
         \E k \in 1 .. Len(req[s].results[i].artworks) : P(req[s].results[i], k)

C6_Witness ==
  /\ SomeItem(LAMBDA e, k : e.trace.taken[k] /= e.trace.draws[k])
  /\ SomeItem(LAMBDA e, k : e.artworks[k].source = "rand")
  /\ SomeItem(LAMBDA e, k : e.artworks[k].source = "sim")

\* the ids of a pool that are not used when the chunk starts
Fresh(e, source) == Ids(PoolOf(e, source)) \ e.trace.usedAtStart

SinglePool(e, source) ==
  /\ \A k \in 1 .. Len(e.trace.draws) : e.trace.draws[k] = source
  /\ \A k \in 1 .. Len(e.artworks) :
       k <= Cardinality(Fresh(e, source)) => e.artworks[k].source = source

\* C7: at t = 0 every draw chooses sim and the items are sim items while the
\* tight pool holds an unused id; at t = 1 every draw chooses rand and the
\* items are rand items with similarity null while the random pool holds one
C7_TemperatureExtremes ==
  \A s \in Slots : Succeeded(s) =>
    \A i \in 1 .. Len(req[s].results) :
      /\ req[s].results[i].t = 0 => SinglePool(req[s].results[i], "sim")
      /\ req[s].results[i].t = TScale =>
           /\ SinglePool(req[s].results[i], "rand")
           /\ \A k \in 1 .. Len(req[s].results[i].artworks) :
                k <= Cardinality(Fresh(req[s].results[i], "rand"))
                  => req[s].results[i].artworks[k].similarity = {}

\* one answer with a chunk at t = 0 and a chunk at t = 1, both with items
C7_Witness ==
  \E s \in Slots :
    /\ Succeeded(s)
    /\ \E i, j \in 1 .. Len(req[s].results) :
         /\ req[s].results[i].t = 0
         /\ Len(req[s].results[i].artworks) > 0
         /\ req[s].results[j].t = TScale
         /\ Len(req[s].results[j].artworks) > 0

WeightTotal(w) == w.sim + w.drift + w.rand

\* C8: for every temperature the three rounded weights of the response meta
\* sum to a value within [0.999, 1.001]
C8_WeightsSum ==
  \A s \in Slots : Answered(s) =>
    /\ WeightTotal(req[s].resp.weights) >= TScale - 1
    /\ WeightTotal(req[s].resp.weights) <= TScale + 1

\* a temperature whose rounded weights do not sum to 1 exactly
C8_Witness ==
  \E s \in Slots : Answered(s) /\ WeightTotal(req[s].resp.weights) = TScale + 1

\* C9: t lies in [0, 1], is 0 for r <= 1.5, is 1 for r >= 12, and is not
\* below the t of any chunk of smaller or equal r
C9_TemperatureMonotone ==
  \A s \in Slots : Answered(s) =>
    /\ req[s].prep.t >= 0
    /\ req[s].prep.t <= TScale
    /\ Cur(req[s]).r2 <= 9 => req[s].prep.t = 0
    /\ Cur(req[s]).r2 >= 576 => req[s].prep.t = TScale
    /\ \A x, y \in 0 .. CoordMax :
         R2(2 * x, 2 * y) <= Cur(req[s]).r2
           => Temperature(2 * x, 2 * y) <= req[s].prep.t

\* a chunk whose temperature lies strictly between 0 and 1, above the
\* temperature of a chunk nearer to the origin
C9_Witness ==
  \E s \in Slots :
    /\ Answered(s)
    /\ req[s].prep.t > 0
    /\ req[s].prep.t < TScale
    /\ \E x, y \in 0 .. CoordMax :
         /\ R2(2 * x, 2 * y) < Cur(req[s]).r2
         /\ Temperature(2 * x, 2 * y) > 0
         /\ Temperature(2 * x, 2 * y) < req[s].prep.t

\* what the claim calls an invalid request
GetInvalid(in) ==
  \/ in.targetId.k /= "int"
  \/ in.targetId.v <= 0
  \/ in.chunkX.k /= "int"
  \/ in.chunkY.k /= "int"

MemberInvalid(m) ==
  \/ m.k /= "obj"
  \/ ~IsNumber(m.x) \/ ~IsNumber(m.y)
  \/ ~IsInteger2(m.x.v2) \/ ~IsInteger2(m.y.v2)

PostInvalid(in) ==
  \/ ~IsNumber(in.targetId)
  \/ in.targetId.v2 <= 0
  \/ ~IsInteger2(in.targetId.v2)
  \/ in.chunks.k /= "arr"
  \/ Len(in.chunks.items) < 1
  \/ Len(in.chunks.items) > MaxChunks
  \/ \E i \in 1 .. Len(in.chunks.items) : MemberInvalid(in.chunks.items[i])

Invalid(in) ==
  IF in.mode = "GET" THEN GetInvalid(in)
  ELSE IF in.mode = "POST" THEN PostInvalid(in)
  ELSE FALSE

\* C10: a request with a missing or invalid targetId, a non-integer chunk
\* coordinate, a chunks list of fewer than 1 or more than 16 members, or a
\* member without numeric x or y is answered 400
C10_InvalidIs400 ==
  \A s \in Slots :
    (Answered(s) /\ Invalid(req[s].in)) => req[s].resp.status = 400

\* C11: a request answered 400 issued no store call; a request whose focal id
\* has no eligible row issued the focal lookup and nothing else, and is
\* answered 404 unless the lookup itself failed
C11_NoSideEffects ==
  \A s \in Slots : Answered(s) =>
    /\ req[s].resp.status = 400 => req[s].calls = <<>>
    /\ req[s].resp.status = 404 => req[s].calls = <<"focal">>
    /\ (req[s].calls /= <<>> /\ ~TargetFound(req[s].targetId)) =>
         /\ req[s].calls = <<"focal">>
         /\ req[s].resp.status \in {404, 500}

\* a request answered 404 after its focal lookup
C11_Witness ==
  \E s \in Slots :
    /\ Answered(s)
    /\ req[s].resp.status = 404
    /\ ~TargetFound(req[s].targetId)
    /\ req[s].calls = <<"focal">>

\* the startup load threw, and BASIS is what it left behind
LoadFailed ==
  /\ started
  /\ \E art \in Artifacts :
       /\ loadPCABasisFromFile(<<>>, art).threw
       /\ BASIS = loadPCABasisFromFile(<<>>, art).basis

\* C12: after a failed startup load the server runs; no field request
\* succeeds, one with valid parameters and an existing focal row is answered
\* 500, and /health answers 200 as it does with a basis
C12_DegradedAnswers500 ==
  /\ \A s \in Slots :
       (Answered(s) /\ req[s].in = HealthReq) => req[s].resp.status = 200
  /\ LoadFailed =>
       \A s \in Slots : (Answered(s) /\ IsField(req[s])) =>
         /\ req[s].resp.status /= 200
         /\ (req[s].calls /= <<>> /\ TargetFound(req[s].targetId))
              => req[s].resp.status = 500

\* after a failed load: a health request answered 200 and a field request
\* with an existing focal row answered 500
C12_Witness ==
  /\ LoadFailed
  /\ \E s \in Slots : Answered(s) /\ req[s].in = HealthReq /\ req[s].resp.status = 200
  /\ \E s \in Slots :
       /\ Answered(s) /\ IsField(req[s])
       /\ TargetFound(req[s].targetId)
       /\ req[s].calls = <<"focal">>
       /\ req[s].resp.status = 500

\* the store calls of a request that acquired every pool
RECURSIVE ChunkCalls(_)
ChunkCalls(n) ==
  IF n = 0 THEN <<>> ELSE <<"drift", "setseed", "rand">> \o ChunkCalls(n - 1)

FullCalls(r) == <<"focal", "tight">> \o ChunkCalls(NChunks(r))

\* C13: an answer that is not a success carries no items and no chunk data,
\* also when chunks were completed before the failure; an answer with items
\* was given after every pool query of the request had returned
C13_FailureAbortsRequest ==
  \A s \in Slots : (Answered(s) /\ IsField(req[s])) =>
    /\ req[s].resp.status /= 200 =>
         /\ req[s].resp.data = <<>>
         /\ req[s].resp.chunks = <<>>
    /\ req[s].resp.status = 200 => req[s].calls = FullCalls(req[s])
    /\ req[s].calls /= FullCalls(req[s]) => req[s].resp.status /= 200

\* a multi-chunk request answered 500 by a failure in its second chunk, the
\* first chunk completed with items
C13_Witness ==
  \E s \in Slots :
    /\ Answered(s)
    /\ req[s].in.mode = "POST"
    /\ req[s].resp.status = 500
    /\ Len(req[s].results) = 1
    /\ Len(req[s].results[1].artworks) > 0
    /\ Len(req[s].calls) > 5
    /\ req[s].resp.chunks = <<>>

\* the ids the three pools of a chunk hold
PoolIds(e) ==
  Ids(e.trace.simTight) \cup Ids(e.trace.simDrift) \cup Ids(e.trace.randPool)

\* the last chunk of the request went through the sampler
SampledLast(r) ==
  \E i \in 1 .. Len(r.results) : r.results[i].trace.chunkIndex = NChunks(r) - 1

\* C14: the sampler returns at most count items; it returns fewer only when
\* every id of the three pools is used, after one draw that found nothing;
\* and a request whose last chunk went through the sampler is answered with
\* success, also when a list is empty
C14_SamplerNeverFails ==
  \A s \in Slots :
    /\ \A i \in 1 .. Len(req[s].results) :
         /\ Len(req[s].results[i].artworks) <= req[s].count
         /\ Len(req[s].results[i].artworks) < req[s].count =>
              /\ PoolIds(req[s].results[i]) \subseteq req[s].results[i].trace.usedAtEnd
              /\ Len(req[s].results[i].trace.draws)
                   = Len(req[s].results[i].artworks) + 1
         /\ Len(req[s].results[i].artworks) = req[s].count =>
              Len(req[s].results[i].trace.draws) = req[s].count
    /\ (IsField(req[s]) /\ SampledLast(req[s])) => Succeeded(s)

\* a success with an empty list for a chunk whose pools held ids, all of
\* them used, and a list shorter than count in the same answer
C14_Witness ==
  \E s \in Slots :
    /\ Succeeded(s)
    /\ \E i, j \in 1 .. Len(req[s].results) :
         /\ req[s].results[i].artworks = <<>>
         /\ PoolIds(req[s].results[i]) /= {}
         /\ req[s].results[j].artworks /= <<>>
         /\ Len(req[s].results[j].artworks) < req[s].count

\* C15: the chunks of a multi-chunk request are processed in ascending order
\* of r, and the offset of each chunk is computed from the index the chunk
\* has in the request's chunks list
C15_OriginalIndexForOffset ==
  \A s \in Slots : (IsField(req[s]) /\ ~IsGet(req[s])) =>
    /\ \A i, j \in 1 .. NChunks(req[s]) :
         i < j => req[s].chunks[i].r2 <= req[s].chunks[j].r2
    /\ \A i \in 1 .. Len(req[s].results) :
         /\ req[s].chunks[req[s].results[i].trace.chunkIndex + 1].originalIndex
              = req[s].results[i].trace.originalIndex
         /\ req[s].results[i].trace.offset
              = getSpatialOffset(req[s].chunks[req[s].results[i].trace.chunkIndex + 1],
                                 req[s].globalSeed,
                                 req[s].results[i].trace.originalIndex)

\* the coordinates of the request's chunks, in halves
Requested(in) ==
  {<<in.chunks.items[i].x.v2, in.chunks.items[i].y.v2>> :
     i \in 1 .. Len(in.chunks.items)}

\* C16: a multi-chunk success holds, for every requested chunk, an entry
\* under the key "x,y" with that chunk's coordinates in its chunk field, and
\* no other key; with distinct coordinates it holds meta.totalChunks entries
C16_KeyedByCoordinates ==
  \A s \in Slots : (Succeeded(s) /\ ~IsGet(req[s])) =>
    /\ \A c \in Requested(req[s].in) :
         \E i \in 1 .. Len(req[s].resp.chunks) :
           /\ req[s].resp.chunks[i].key = chunkKey(c[1], c[2])
           /\ req[s].resp.chunks[i].chunk = [x2 |-> c[1], y2 |-> c[2]]
    /\ \A i \in 1 .. Len(req[s].resp.chunks) :
         /\ \E c \in Requested(req[s].in) :
              req[s].resp.chunks[i].key = chunkKey(c[1], c[2])
         /\ \A j \in 1 .. Len(req[s].resp.chunks) :
              i /= j => req[s].resp.chunks[i].key /= req[s].resp.chunks[j].key
    /\ Cardinality(Requested(req[s].in)) = Len(req[s].in.chunks.items) =>
         Len(req[s].resp.chunks) = req[s].resp.totalChunks

\* a multi-chunk success for two distinct chunks that share a coordinate
C16_Witness ==
  \E s \in Slots :
    /\ Succeeded(s) /\ ~IsGet(req[s])
    /\ req[s].resp.totalChunks = 2
    /\ Cardinality(Requested(req[s].in)) = 2
    /\ \E a, b \in Requested(req[s].in) : a /= b /\ a[2] = b[2]
    /\ Len(req[s].resp.chunks) = 2

\* C17: no pool a chunk retrieves holds the focal id or an id of the
\* request's exclude list
C17_PoolsExcludeListed ==
  \A s \in Slots : IsField(req[s]) =>
    \A i \in 1 .. Len(req[s].results) :
      PoolIds(req[s].results[i])
        \cap ({FocalId(req[s])} \cup ListedExcludes(req[s].in)) = {}

\* C18: after a load that failed getBasis throws, BASIS is what it was before
\* the load, and getBasis never returns fewer than 2 vectors
C18_FailedLoadUnavailable ==
  /\ LoadFailed => (getBasisThrows(BASIS) /\ BASIS = <<>>)
  /\ ~getBasisThrows(BASIS) => Len(BASIS) >= 2

\* the order in which a chunk's sampler goes through a pool
Traversal(e, source) ==
  IF source = "rand" THEN e.trace.randPool
  ELSE Rotate(PoolOf(e, source), e.trace.offset)

\* the used set when the k-th item of the chunk is selected
UsedBefore(e, k) == e.trace.usedAtStart \cup {e.artworks[j].id : j \in 1 .. k - 1}

Unused(e, source, k) ==
  {i \in 1 .. Len(Traversal(e, source)) : Traversal(e, source)[i].id \notin UsedBefore(e, k)}

\* the order of the pools for a primary choice, as the claim states it
ClaimedOrder(choice) ==
  IF choice = "sim" THEN <<"sim", "drift", "rand">>
  ELSE IF choice = "drift" THEN <<"drift", "sim", "rand">>
  ELSE <<"rand", "drift", "sim">>

\* the k-th item comes out of the n-th pool of the order of its choice
TakenFromNth(e, k, n) ==
  /\ e.artworks[k].source = ClaimedOrder(e.trace.draws[k])[n]
  /\ \A m \in 1 .. n - 1 : Unused(e, ClaimedOrder(e.trace.draws[k])[m], k) = {}
  /\ Unused(e, e.artworks[k].source, k) /= {}
  /\ \E i \in Unused(e, e.artworks[k].source, k) :
       /\ \A j \in Unused(e, e.artworks[k].source, k) : i <= j
       /\ e.artworks[k].id = Traversal(e, e.artworks[k].source)[i].id

\* C19: every item is the first unused element, in traversal order, of the
\* first pool that holds an unused id in the order sim, drift, rand for
\* primary sim, drift, sim, rand for drift and rand, drift, sim for rand
C19_FallbackOrder ==
  \A s \in Slots : IsField(req[s]) =>
    \A i \in 1 .. Len(req[s].results) :
      \A k \in 1 .. Len(req[s].results[i].artworks) :
        \E n \in 1 .. 3 : TakenFromNth(req[s].results[i], k, n)

\* answers in which an item came out of the second pool of its order, out
\* of the third pool, and from behind a used element of its own pool
C19_Witness ==
  /\ SomeItem(LAMBDA e, k : TakenFromNth(e, k, 2))
  /\ SomeItem(LAMBDA e, k : TakenFromNth(e, k, 3))
  /\ SomeItem(LAMBDA e, k :
       e.artworks[k].id /= Traversal(e, e.artworks[k].source)[1].id)

\* hash32(x + 100, y + 100[, globalSeed, chunkIndex]) of a chunk
OffsetHash(r) ==
  IF IsGet(r)
  THEN hash32(<<(Cur(r).x2 \div 2) + 100, (Cur(r).y2 \div 2) + 100>>)
  ELSE hash32(<<(Cur(r).x2 \div 2) + 100, (Cur(r).y2 \div 2) + 100,
                r.globalSeed, r.ci - 1>>)

\* x * x + y * y of the chunk in hand
RSquared(r) ==
  ((Cur(r).x2 \div 2) * (Cur(r).x2 \div 2)) + ((Cur(r).y2 \div 2) * (Cur(r).y2 \div 2))

\* C20: the offset is hash32(x+100, y+100) mod 50 for r < 2 and 0 otherwise in
\* single-chunk mode, hash32(x+100, y+100, globalSeed, chunkIndex) mod 100 for
\* r < 3 and chunkIndex * 25 otherwise in multi-chunk mode; it is never
\* negative, below 50 in single-chunk mode and at most 375 in multi-chunk mode
C20_SpatialOffset ==
  \A s \in Slots : Answered(s) =>
    /\ req[s].results[1].trace.offset >= 0
    /\ IF IsGet(req[s])
       THEN /\ req[s].results[1].trace.offset < 50
            /\ req[s].results[1].trace.offset
                 = IF RSquared(req[s]) < 4 THEN WMod(OffsetHash(req[s]), 50) ELSE 0
       ELSE /\ req[s].results[1].trace.offset <= 375
            /\ req[s].results[1].trace.offset
                 = IF RSquared(req[s]) < 9 THEN WMod(OffsetHash(req[s]), 100)
                   ELSE (req[s].ci - 1) * 25

\* the last chunk of a list of 16, at r >= 3, with the offset 375
C20_Witness ==
  \E s \in Slots :
    /\ Answered(s) /\ ~IsGet(req[s])
    /\ req[s].ci = MaxChunks
    /\ RSquared(req[s]) >= 9
    /\ req[s].results[1].trace.offset = 375

\* a queue without its source labels
Untagged(q) == [i \in 1 .. Len(q) |-> [id |-> q[i].id, sim |-> q[i].sim]]

\* pool[offset:] ++ pool[:offset], as the claim writes the traversal order
ClaimedRotation(pool, offset) ==
  IF offset >= Len(pool) THEN pool
  ELSE SubSeq(pool, offset + 1, Len(pool)) \o SubSeq(pool, 1, offset)

Occurrences(seq, x) == Cardinality({i \in 1 .. Len(seq) : seq[i] = x})

IsPermutation(a, b) ==
  /\ Len(a) = Len(b)
  /\ \A i \in 1 .. Len(b) : Occurrences(a, b[i]) = Occurrences(b, b[i])

\* every chunk that went through the sampler satisfies P
EveryEntry(P(_, _)) ==
  \A s \in Slots : IsField(req[s]) =>
    \A i \in 1 .. Len(req[s].results) : P(req[s], req[s].results[i])

SomeEntry(P(_, _)) ==
  \E s \in Slots :
    /\ IsField(req[s])
    /\ \E i \in 1 .. Len(req[s].results) : P(req[s], req[s].results[i])

\* C21: the tight and drift queues of a chunk are pool[offset:] ++
\* pool[:offset] of the retrieved pools, a permutation of them for every
\* offset >= 0, also one that is not below the pool's length; the random
\* queue is the random pool in the order the store returned it
C21_RotationIsPermutation ==
  EveryEntry(LAMBDA r, e :
    /\ e.trace.offset >= 0
    /\ Untagged(e.trace.queues.sim) = ClaimedRotation(e.trace.simTight, e.trace.offset)
    /\ Untagged(e.trace.queues.drift) = ClaimedRotation(e.trace.simDrift, e.trace.offset)
    /\ IsPermutation(Untagged(e.trace.queues.sim), e.trace.simTight)
    /\ IsPermutation(Untagged(e.trace.queues.drift), e.trace.simDrift)
    /\ Untagged(e.trace.queues.rand) = e.trace.randPool)

\* a chunk whose drift queue starts inside the drift pool, and a chunk whose
\* offset is not below the length of its non-empty tight pool
C21_Witness ==
  /\ SomeEntry(LAMBDA r, e :
       /\ e.trace.offset > 0
       /\ e.trace.offset < Len(e.trace.simDrift)
       /\ Untagged(e.trace.queues.drift) /= e.trace.simDrift)
  /\ SomeEntry(LAMBDA r, e :
       /\ e.trace.simTight /= <<>>
       /\ e.trace.offset >= Len(e.trace.simTight)
       /\ Len(e.trace.queues.sim) = Len(e.trace.simTight))

\* a multi-chunk request in flight or answered
IsPost(r) == r.in.mode = "POST"

\* the set globalUsed starts from, as the claim states it
ClaimedInitialUsed(r) == {FocalId(r)} \cup ListedExcludes(r.in)

\* the entry of the chunk at chunkIndex k
EntryOfIndex(results, k) ==
  CHOOSE e \in {results[i] : i \in 1 .. Len(results)} : e.trace.chunkIndex = k

\* a step of request s that is the completion of its chunk in hand
ChunkCompleted(s) ==
  /\ req[s].pc = "rand"
  /\ Len(req'[s].results) > 0
  /\ \E i \in 1 .. Len(req'[s].results) :
       req'[s].results[i].trace.chunkIndex = req[s].ci - 1
  /\ req'[s].results /= req[s].results

GlobalUsedStep(s) ==
  /\ (req[s].pc = "focal" /\ req'[s].pc = "tight") =>
       req'[s].globalUsed = ClaimedInitialUsed(req'[s])
  /\ req[s].pc \in {"tight", "drift", "setseed", "rand"} =>
       req[s].globalUsed \subseteq req'[s].globalUsed
  /\ (req[s].pc \in {"tight", "drift", "setseed", "rand"} /\ ~ChunkCompleted(s)) =>
       req'[s].globalUsed = req[s].globalUsed
  /\ ChunkCompleted(s) =>
       /\ EntryOfIndex(req'[s].results, req[s].ci - 1).trace.usedAtStart
            = req[s].globalUsed
       /\ req'[s].globalUsed
            = req[s].globalUsed
                \cup Ids(EntryOfIndex(req'[s].results, req[s].ci - 1).artworks)

\* C22: in a multi-chunk request globalUsed is {focalId} united with the
\* numeric excludeIds before the first chunk; it never loses an id; a chunk's
\* sampler starts from the globalUsed of that moment, and completing the
\* chunk adds exactly the ids picked for it
C22_GlobalUsedGrows ==
  [][\A s \in Slots : (IsPost(req[s]) /\ IsPost(req'[s])) => GlobalUsedStep(s)]_vars

\* a success for two chunks with an exclude list: the second chunk started
\* from the focal id, the listed id and the ids picked for the first chunk
C22_Witness ==
  \E s \in Slots :
    /\ Succeeded(s) /\ IsPost(req[s])
    /\ ListedExcludes(req[s].in) /= {}
    /\ Len(req[s].results) = 2
    /\ req[s].results[1].artworks /= <<>>
    /\ req[s].results[2].artworks /= <<>>
    /\ req[s].results[1].trace.usedAtStart = ClaimedInitialUsed(req[s])
    /\ req[s].results[2].trace.usedAtStart
         = ClaimedInitialUsed(req[s]) \cup Ids(req[s].results[1].artworks)
    /\ req[s].globalUsed
         = req[s].results[2].trace.usedAtStart \cup Ids(req[s].results[2].artworks)

IsPrefix(a, b) == Len(a) <= Len(b) /\ a = SubSeq(b, 1, Len(a))

CountOf(calls, kind) == Cardinality({i \in 1 .. Len(calls) : calls[i] = kind})

\* the seed folded from the focal id, the coordinates of the chunk in hand
\* and the request's seed
FoldedSeed(r) ==
  hash32(<<FocalId(r), Trunc2(Cur(r).x2), Trunc2(Cur(r).y2), r.globalSeed>>)

\* request s issues a store call in this step
Issues(s) == Len(req'[s].calls) > Len(req[s].calls)

LastCall(r) == r.calls[Len(r.calls)]

StoreCallStep(s) ==
  /\ IsPrefix(req'[s].calls, FullCalls(req'[s]))
  /\ CountOf(req'[s].calls, "tight") <= 1
  /\ req[s].pc /= "idle" =>
       /\ IsPrefix(req[s].calls, req'[s].calls)
       /\ Len(req'[s].calls) <= Len(req[s].calls) + 1
  /\ (Issues(s) /\ LastCall(req'[s]) \in {"drift", "setseed", "rand"}) =>
       CountOf(req'[s].calls, LastCall(req'[s])) = req[s].ci
  /\ (Issues(s) /\ LastCall(req'[s]) = "setseed" /\ req'[s].pc = "rand") =>
       \E c \in Conns : connSeed'[c] = SetSeed(seedToPgFloat(FoldedSeed(req[s])))
  /\ (Len(req[s].calls) > 0 /\ LastCall(req[s]) = "setseed" /\ Issues(s)) =>
       LastCall(req'[s]) = "rand"

\* C23: the store calls of a request are issued one per step and form a
\* prefix of focal, tight, then drift, setseed, rand for each chunk in
\* processing order; tight is issued at most once; setseed carries the seed
\* folded for the chunk in hand, and the call after a setseed is the
\* random-ordered query of the same chunk
C23_StoreCallOrder ==
  [][\A s \in Slots : IsField(req'[s]) => StoreCallStep(s)]_vars

\* a two-chunk request answered with success after its eight calls; another
\* request arrived and issued store calls while it was in flight
C23_Witness ==
  \E s \in Slots :
    /\ Succeeded(s) /\ IsPost(req[s])
    /\ \E o \in Slots \ {s} :
         IsField(req[o]) /\ ~req[o].alone /\ req[o].calls /= <<>>
    /\ req[s].calls = <<"focal", "tight", "drift", "setseed", "rand",
                        "drift", "setseed", "rand">>
    /\ req[s].results[1].trace.seed /= req[s].results[2].trace.seed

\* C24: once the startup code has run, no step changes the basis: its length
\* and every vector stay what the load left, whatever requests are served
C24_BasisNeverChanges ==
  [][started =>
       /\ Len(BASIS') = Len(BASIS)
       /\ \A i \in 1 .. Len(BASIS) : BASIS'[i] = BASIS[i]]_vars

\* a single-chunk and a multi-chunk request both answered with success, a
\* chunk among them with a bias that is not zero, and the basis as loaded
C24_Witness ==
  /\ BASIS = <<Vec(1, 1), Vec(2, 1)>>
  /\ \E a, b \in Slots :
       /\ Succeeded(a) /\ IsGet(req[a])
       /\ Succeeded(b) /\ IsPost(req[b]) /\ Len(req[b].results) = 2
       /\ \E i \in 1 .. 2 :
            /\ req[b].results[i].t > 0
            /\ pcaDirectionalBias(BASIS, theta(req[b].results[i].chunk.x2,
                                               req[b].results[i].chunk.y2),
                                  req[b].results[i].t) /= 0

\* the state of a chunk's generator after n calls
RECURSIVE StepN(_, _)
StepN(t, n) == IF n = 0 THEN t ELSE StepN(mulberryStep(t), n - 1)

\* the number of calls the Gaussian vector took: two per component, and one
\* more for every draw of 0 it rejected
GaussianCalls(e) ==
  {k \in 2 * Dim .. (2 * Dim) + 2 : e.trace.rngStart = StepN(e.trace.seed, k)}

SequentialDraws(r, e) ==
  /\ e.trace.seed = hash32(<<FocalId(r), Trunc2(e.chunk.x2), Trunc2(e.chunk.y2),
                            r.globalSeed>>)
  /\ GaussianCalls(e) /= {}
  /\ e.trace.rngEnd = StepN(e.trace.rngStart, Len(e.trace.draws))
  /\ \A k \in 1 .. Len(e.trace.draws) :
       e.trace.draws[k] = Choice(mulberryOut(StepN(e.trace.rngStart, k)), e.t)
  /\ Len(e.trace.draws) \in {Len(e.artworks), Len(e.artworks) + 1}
  /\ Len(e.trace.draws) = Len(e.artworks) + 1 => Len(e.artworks) < r.count

\* C25: a chunk's generator starts from the chunk's own seed; the calls of
\* the Gaussian vector come first, then one call per iteration of the
\* selection loop, with or without a fallback, and the k-th choice is made
\* from the k-th of these calls; no call is taken in between or for another
\* chunk
C25_SequentialPrng ==
  EveryEntry(LAMBDA r, e : SequentialDraws(r, e))

\* a two-chunk answer: an item reached by fallback is followed by another
\* draw in its chunk, and the second chunk's generator does not continue the
\* first chunk's
C25_Witness ==
  \E s \in Slots :
    /\ Succeeded(s) /\ IsPost(req[s])
    /\ Len(req[s].results) = 2
    /\ req[s].results[2].trace.rngStart /= req[s].results[1].trace.rngEnd
    /\ req[s].results[2].trace.draws /= <<>>
    /\ \E i \in 1 .. 2 :
         \E k \in 1 .. Len(req[s].results[i].artworks) :
           /\ req[s].results[i].trace.taken[k] /= req[s].results[i].trace.draws[k]
           /\ k < Len(req[s].results[i].trace.draws)

\* the ids of the chunk's pools that are not used when the chunk starts
Available(e) == PoolIds(e) \ e.trace.usedAtStart

\* the elements the sampler shifted out of a queue
Removed(e, source) ==
  SubSeq(e.trace.queues[source], 1,
         Len(e.trace.queues[source]) - Len(e.trace.left[source]))

\* what is left of a queue is its tail
LeftIsTail(e, source) ==
  /\ Len(e.trace.left[source]) <= Len(e.trace.queues[source])
  /\ e.trace.left[source]
       = SubSeq(e.trace.queues[source],
                Len(e.trace.queues[source]) - Len(e.trace.left[source]) + 1,
                Len(e.trace.queues[source]))

\* the elements shifted out of a queue and not returned from it
Dropped(e, source) ==
  {Removed(e, source)[i].id : i \in 1 .. Len(Removed(e, source))}
    \ {e.artworks[k].id : k \in {j \in 1 .. Len(e.artworks) : e.artworks[j].source = source}}

ExactCount(r, e) ==
  /\ Len(e.artworks) = Min(r.count, Cardinality(Available(e)))
  /\ Ids(e.artworks) \subseteq Available(e)
  /\ \A source \in {"sim", "drift", "rand"} :
       /\ LeftIsTail(e, source)
       /\ Dropped(e, source) \subseteq e.trace.usedAtStart \cup Ids(e.artworks)
       /\ \A k \in 1 .. Len(e.artworks) :
            e.artworks[k].source = source =>
              e.artworks[k].id \in Ids(Removed(e, source))

\* C26: a chunk returns min(count, number of distinct ids of its three pools
\* that are unused when it starts) items; every element shifted out of a
\* queue is returned or carries an id that is used
C26_ExactCount ==
  EveryEntry(LAMBDA r, e : ExactCount(r, e))

\* a chunk that returns fewer items than count, all its unused ids, and a
\* chunk that returns count items after dropping a used element, with unused
\* ids left over
C26_Witness ==
  /\ SomeEntry(LAMBDA r, e :
       /\ Len(e.artworks) > 0
       /\ Len(e.artworks) < r.count
       /\ Len(e.artworks) = Cardinality(Available(e)))
  /\ SomeEntry(LAMBDA r, e :
       /\ Len(e.artworks) = r.count
       /\ r.count < Cardinality(Available(e))
       /\ \E source \in {"sim", "drift", "rand"} : Dropped(e, source) /= {})

\* the rows the tight query of the request returns
TightReturned(r) ==
  NearestQuery(FocalId(r), FocalId(r), SqlExcluded(r), simTightLimit(r))

SharedTightIntact(r, e) ==
  IsPost(r) =>
    /\ r.simTight = TightReturned(r)
    /\ e.trace.simTight = TightReturned(r)
    /\ IsPermutation(Untagged(e.trace.queues.sim), TightReturned(r))
    /\ \A id \in Ids(TightReturned(r)) \ Ids(e.trace.left.sim) :
         id \in e.trace.usedAtStart \cup Ids(e.artworks)

\* C27: after every chunk of a multi-chunk request the shared tight pool is
\* what the tight query returned; the tight queue of every chunk holds all of
\* these elements, and an element is missing from what a chunk leaves of its
\* queue only if its id was used before the chunk or picked by it
C27_SharedTightUnchanged ==
  EveryEntry(LAMBDA r, e : SharedTightIntact(r, e))

\* a two-chunk answer whose first chunk took an element out of its tight
\* queue, and whose second chunk found that element in its own tight queue
\* and dropped it as used
C27_Witness ==
  \E s \in Slots :
    /\ Succeeded(s) /\ IsPost(req[s])
    /\ Len(req[s].results) = 2
    /\ \E k \in 1 .. Len(req[s].results[1].artworks) :
         /\ req[s].results[1].artworks[k].source = "sim"
         /\ req[s].results[1].artworks[k].id \in Dropped(req[s].results[2], "sim")
    /\ Len(req[s].results[2].trace.queues.sim) = Len(req[s].simTight)

\* the chunks list of b is that of a in another order, with distinct radii,
\* and the two requests agree in everything else
Relisted(a, b) ==
  /\ IsPost(a) /\ IsPost(b)
  /\ a.in.chunks /= b.in.chunks
  /\ [a.in EXCEPT !.chunks = b.in.chunks] = b.in
  /\ IsPermutation(a.in.chunks.items, b.in.chunks.items)
  /\ \A i, j \in 1 .. Len(a.in.chunks.items) :
       i /= j => R2(a.in.chunks.items[i].x.v2, a.in.chunks.items[i].y.v2)
                   /= R2(a.in.chunks.items[j].x.v2, a.in.chunks.items[j].y.v2)

\* the store answered every random-ordered query of the request from the
\* seed the request had set for it
OwnPools(r) ==
  \A i \in 1 .. Len(r.results) :
    r.results[i].trace.randPool = OwnSeedPool(r, r.results[i])

SameUnderEveryKey(a, b) ==
  /\ Len(a.resp.chunks) = Len(b.resp.chunks)
  /\ \A i \in 1 .. Len(a.resp.chunks) :
       \E j \in 1 .. Len(b.resp.chunks) :
         /\ a.resp.chunks[i].key = b.resp.chunks[j].key
         /\ IdSeq(a.resp.chunks[i].artworks) = IdSeq(b.resp.chunks[j].artworks)

Statuses == {200, 400, 404, 500}

\* a response was sent exactly when the handler has ended
OneResponse(r) ==
  /\ r.pc = "done" => r.resp.status \in Statuses
  /\ r.pc /= "done" => r.resp = NoResp

\* the selection loop of a chunk: its iterations and its removals
LoopBounded(r, e) ==
  /\ Len(e.trace.draws) <= r.count
  /\ Len(e.artworks) <= Len(e.trace.draws)
  /\ Len(Removed(e, "sim")) + Len(Removed(e, "drift")) + Len(Removed(e, "rand"))
       <= Len(e.trace.simTight) + Len(e.trace.simDrift) + Len(e.trace.randPool)
  /\ \A source \in {"sim", "drift", "rand"} : LeftIsTail(e, source)

\* C29: a field request that was received is eventually answered, with 400,
\* 404, 500 or success; a response is sent when the handler ends and at no
\* other time, and it is never followed by another; every selection loop ends
\* after at most count iterations, having removed no more elements than the
\* pools hold
C29_AnsweredOnce ==
  /\ [](\A s \in Slots : IsField(req[s]) => OneResponse(req[s]))
  /\ [](EveryEntry(LAMBDA r, e : LoopBounded(r, e)))
  /\ [][\A s \in Slots :
         /\ req[s].resp /= NoResp => req'[s] = req[s]
         /\ req'[s].resp /= req[s].resp => req'[s].pc = "done"]_vars
  /\ \A s \in Slots :
       (IsField(req[s]) /\ req[s].pc /= "done")
         ~> (req[s].pc = "done" /\ req[s].resp.status \in Statuses)

\* one request answered with success after a selection loop that ran count
\* iterations, another answered 500 by the catch block after store calls
C29_Witness ==
  \E a, b \in Slots :
    /\ Succeeded(a)
    /\ \E i \in 1 .. Len(req[a].results) :
         /\ Len(req[a].results[i].trace.draws) = req[a].count
         /\ Len(Removed(req[a].results[i], "sim")) > 0
    /\ Answered(b) /\ IsField(req[b])
    /\ req[b].resp.status = 500
    /\ Len(req[b].calls) > 2

\* n mod 2^32 as a word, for |n| < 2^31
RefArg32(n) ==
  IF n >= 0 THEN <<n \div 65536, n % 65536>>
  ELSE <<(65536 - ((-n) \div 65536) - (IF (-n) % 65536 = 0 THEN 0 ELSE 1)) % 65536,
         (65536 - ((-n) % 65536)) % 65536>>

RECURSIVE SumPow2(_)
SumPow2(S) ==
  IF S = {} THEN 0
  ELSE LET i == CHOOSE x \in S : TRUE IN (2 ^ i) + SumPow2(S \ {i})

\* a XOR b of two 16-bit numbers: the bits set in exactly one of them
RefXor16(a, b) ==
  SumPow2({i \in 0 .. 15 : ((a \div (2 ^ i)) % 2) /= ((b \div (2 ^ i)) % 2)})

\* (w * 0x01000193) mod 2^32 = (w * 2^24 + w * 403) mod 2^32
RefTimesPrime(w) ==
  <<((w[1] * 403) + ((w[2] * 403) \div 65536) + ((w[2] % 256) * 256)) % 65536,
    (w[2] * 403) % 65536>>

\* the reference mix: h = ((h XOR arg32) * 0x01000193) mod 2^32, in order
RECURSIVE RefMix(_, _)
RefMix(h, nums) ==
  IF nums = <<>> THEN h
  ELSE RefMix(RefTimesPrime(<<RefXor16(h[1], RefArg32(Head(nums))[1]),
                              RefXor16(h[2], RefArg32(Head(nums))[2])>>),
              Tail(nums))

\* 0x811C9DC5
RefOffsetBasis == <<33052, 40389>>

IsWord32(w) == w[1] \in 0 .. 65535 /\ w[2] \in 0 .. 65535

HashOf(s) == req[s].results[1].trace.seed

\* C30: hash32 is the reference mix started at 0x811C9DC5; its result is a
\* word in [0, 2^32); equal argument lists give equal results; the lists
\* (1, 2) and (2, 1) give different results; and the store seed is the result
\* over 2^32, a value in [0, 1)
C30_Hash32IsReferenceMix ==
  /\ \A s \in Slots : Answered(s) =>
       /\ IsWord32(HashOf(s))
       /\ HashOf(s) = RefMix(RefOffsetBasis, req[s].in.nums)
       /\ req[s].results[1].trace.pgFloat.num = HashOf(s)
       /\ req[s].results[1].trace.pgFloat.den32
       /\ IsWord32(req[s].results[1].trace.pgFloat.num)
  /\ \A a, b \in Slots :
       (Answered(a) /\ Answered(b)) =>
         /\ req[a].in.nums = req[b].in.nums => HashOf(a) = HashOf(b)
         /\ (req[a].in.nums = <<1, 2>> /\ req[b].in.nums = <<2, 1>>)
              => HashOf(a) /= HashOf(b)

\* the results for (1, 2) and (2, 1), which differ
C30_Witness ==
  /\ Answered(1) /\ Answered(2)
  /\ req[1].in.nums = <<1, 2>> /\ req[2].in.nums = <<2, 1>>
  /\ HashOf(1) /= HashOf(2)
  /\ HashOf(1) = RefMix(RefOffsetBasis, <<1, 2>>)

====
